---- MODULE Spec2Model ----
(***************************************************************************)
(* Wire framing of the p2p layer (p2p/src/msg.rs): the message type        *)
(* registry with its per-type size limits, the 11-byte header codec, the   *)
(* async frame reader (read_header, read_expected_header, read_body,       *)
(* read_message) and the async frame writer (write_message) with its       *)
(* chunked attachment and the two traffic counters.                        *)
(*                                                                         *)
(* SpecRead: one inbound stream, fed by a remote peer, read by this node.  *)
(* SpecWrite: one outbound stream, written by this node.                   *)
(* SpecCodec: the payload codecs, on one body at a time.                   *)
(***************************************************************************)
EXTENDS Integers, Sequences, FiniteSets, TLC

VARIABLES
    chain,       \* global::CHAIN_TYPE of this node
    peer,        \* the remote peer: a node of some network, or one sending a bad magic
    inp,         \* inbound stream: the bytes sent by the peer and not yet read
    frames,      \* (history) the frames the unread bytes of inp belong to
    off,         \* (history) bytes of Head(frames) already read
    peer_closed, \* the peer has closed its end of the inbound stream
    nsent,       \* frames sent by the peer so far
    rpc,         \* reader: "idle", or "body" (read_message awaits the body)
    rop,         \* reader: the operation running or last completed
    rexp,        \* reader: msg_type argument of read_message
    rhdr,        \* reader: result of the header stage of that operation
    rres,        \* reader: result returned by that operation
    rbuf,        \* reader: length of buf after the last resize
    rbody,       \* reader: body bytes taken from the stream by that operation
    rsrc,        \* (history) the frame whose header that operation read
    skipped,     \* (history) the frame just skipped whole, nothing read since
    rafter,      \* (history) the skipped frame that operation directly followed
    wpc,         \* writer: position in write_message
    wmsg,        \* writer: the Msg being sent
    out,         \* outbound stream: the write_all calls made on it, in order
    msgs,        \* (history) the messages handed to write_message, in order
    sent_bytes,  \* tracker: primary counter (inc_sent)
    quiet_bytes, \* tracker: quiet counter (inc_quiet_sent)
    file_rem,    \* bytes left in the attachment file from its read position
    wn,          \* writer: n returned by the last file.read
    nshort,      \* (history) short reads of the attachment so far
    reads,       \* (history) what the non-empty reads of the attachment returned
    sent0,       \* (history) sent_bytes when write_message was called
    quiet0,      \* (history) quiet_bytes when write_message was called
    wres,        \* writer: result of write_message
    origin,      \* (history) how wmsg was built: "new" or "from_parts"
    cpc,         \* codec: "idle", "encoded" (a body is at hand) or "decoded"
    ckind,       \* codec: the payload type of the body
    cval,        \* codec: the payload the body was serialized from, if it was
    cbytes,      \* codec: the body, as Msg::new makes it or as a peer sent it
    cres,        \* codec: what T::read made of the body
    pending,     \* producers: the envelope each has built and not yet sent
    lock,        \* producers: the one holding the outbound stream, or 0
    owners,      \* (history) the producer of each message of msgs
    payloads     \* (history) the typed payloads sent, each with its message number

rvars == <<chain, peer, inp, frames, off, peer_closed, nsent,
           rpc, rop, rexp, rhdr, rres, rbuf, rbody, rsrc, skipped, rafter>>
wvars == <<wpc, wmsg, out, msgs, sent_bytes, quiet_bytes, file_rem, wn,
           nshort, reads, sent0, quiet0, wres, origin>>
cvars == <<cpc, ckind, cval, cbytes, cres>>
pvars == <<pending, lock, owners, payloads>>
vars == <<rvars, wvars, cvars, pvars>>

-----------------------------------------------------------------------------
(* Bounds of the model *)

\* frames the peer sends on the inbound stream
MaxFrames == 2
\* the peer sends the whole body of a frame only when it is this short
MaxBody == 10

-----------------------------------------------------------------------------
(* Network identities and magic *)

\* global::ChainTypes, as far as magic() tells them apart
ChainTypes == {"Mainnet", "Floonet", "Other"}

OTHER_MAGIC == <<73, 43>>
FLOONET_MAGIC == <<83, 59>>
MAINNET_MAGIC == <<97, 61>>

magic_floonet_as_other(ct) ==
    CASE ct = "Mainnet" -> MAINNET_MAGIC
      [] OTHER -> OTHER_MAGIC

magic(ct) ==
    CASE ct = "Floonet" -> FLOONET_MAGIC
      [] ct = "Mainnet" -> MAINNET_MAGIC
      [] OTHER -> OTHER_MAGIC

-----------------------------------------------------------------------------
(* Message types *)

TypeTable_ping_pong_swapped ==
    << "Error", "Hand", "Shake", "Pong", "Ping", "GetPeerAddrs", "PeerAddrs",
       "GetHeaders", "Header", "Headers", "GetBlock", "Block",
       "GetCompactBlock", "CompactBlock", "StemTransaction", "Transaction",
       "TxHashSetRequest", "TxHashSetArchive", "BanReason", "GetTransaction",
       "TransactionKernel", "KernelDataRequest", "KernelDataResponse" >>

\* enum Type: the variant with discriminant c is TypeTable[c + 1]
TypeTable ==
    << "Error", "Hand", "Shake", "Ping", "Pong", "GetPeerAddrs", "PeerAddrs",
       "GetHeaders", "Header", "Headers", "GetBlock", "Block",
       "GetCompactBlock", "CompactBlock", "StemTransaction", "Transaction",
       "TxHashSetRequest", "TxHashSetArchive", "BanReason", "GetTransaction",
       "TransactionKernel", "KernelDataRequest", "KernelDataResponse" >>

Type == {TypeTable[i] : i \in 1..Len(TypeTable)}

\* `msg_type as u8`
Type_as_u8(msg_type) ==
    (CHOOSE i \in 1..Len(TypeTable) : TypeTable[i] = msg_type) - 1

\* Type::from_u8 (enum_from_primitive!): None for a byte that is no discriminant
Type_from_u8(t) ==
    IF t + 1 \in 1..Len(TypeTable) THEN TypeTable[t + 1] ELSE "None"

\* types::MAX_PEER_ADDRS, MAX_LOCATORS, MAX_BLOCK_HEADERS
MAX_PEER_ADDRS == 256
MAX_LOCATORS == 20
MAX_BLOCK_HEADERS == 512

\* consensus::BLOCK_OUTPUT_WEIGHT
BLOCK_OUTPUT_WEIGHT == 21

\* global::max_block_weight(): the testing weight off the public networks
max_block_weight(ct) ==
    IF ct \in {"Mainnet", "Floonet"} THEN 40000 ELSE 150

max_block_size(ct) ==
    (max_block_weight(ct) \div BLOCK_OUTPUT_WEIGHT) * 708

default_max_msg_size(ct) == max_block_size(ct)

max_msg_size_error_as_ban_reason(msg_type, ct) ==
    CASE msg_type = "Error" -> 64
      [] msg_type = "Hand" -> 128
      [] msg_type = "Shake" -> 88
      [] msg_type = "Ping" -> 16
      [] msg_type = "Pong" -> 16
      [] msg_type = "GetPeerAddrs" -> 4
      [] msg_type = "PeerAddrs" -> 4 + (1 + 16 + 2) * MAX_PEER_ADDRS
      [] msg_type = "GetHeaders" -> 1 + 32 * MAX_LOCATORS
      [] msg_type = "Header" -> 365
      [] msg_type = "Headers" -> 2 + 365 * MAX_BLOCK_HEADERS
      [] msg_type = "GetBlock" -> 32
      [] msg_type = "Block" -> max_block_size(ct)
      [] msg_type = "GetCompactBlock" -> 32
      [] msg_type = "CompactBlock" -> max_block_size(ct) \div 10
      [] msg_type = "StemTransaction" -> max_block_size(ct)
      [] msg_type = "Transaction" -> max_block_size(ct)
      [] msg_type = "TxHashSetRequest" -> 40
      [] msg_type = "TxHashSetArchive" -> 64
      [] msg_type = "BanReason" -> 64
      [] msg_type = "GetTransaction" -> 32
      [] msg_type = "TransactionKernel" -> 32
      [] msg_type = "KernelDataRequest" -> 0
      [] msg_type = "KernelDataResponse" -> 8

max_msg_size(msg_type, ct) ==
    CASE msg_type = "Error" -> 0
      [] msg_type = "Hand" -> 128
      [] msg_type = "Shake" -> 88
      [] msg_type = "Ping" -> 16
      [] msg_type = "Pong" -> 16
      [] msg_type = "GetPeerAddrs" -> 4
      [] msg_type = "PeerAddrs" -> 4 + (1 + 16 + 2) * MAX_PEER_ADDRS
      [] msg_type = "GetHeaders" -> 1 + 32 * MAX_LOCATORS
      [] msg_type = "Header" -> 365
      [] msg_type = "Headers" -> 2 + 365 * MAX_BLOCK_HEADERS
      [] msg_type = "GetBlock" -> 32
      [] msg_type = "Block" -> max_block_size(ct)
      [] msg_type = "GetCompactBlock" -> 32
      [] msg_type = "CompactBlock" -> max_block_size(ct) \div 10
      [] msg_type = "StemTransaction" -> max_block_size(ct)
      [] msg_type = "Transaction" -> max_block_size(ct)
      [] msg_type = "TxHashSetRequest" -> 40
      [] msg_type = "TxHashSetArchive" -> 64
      [] msg_type = "BanReason" -> 64
      [] msg_type = "GetTransaction" -> 32
      [] msg_type = "TransactionKernel" -> 32
      [] msg_type = "KernelDataRequest" -> 0
      [] msg_type = "KernelDataResponse" -> 8

-----------------------------------------------------------------------------
(* Header codec *)

LEN_12 == 2 + 2 + 8

\* MsgHeader::LEN
LEN == 2 + 1 + 8

\* Writer::write_u64: eight bytes, most significant first
RECURSIVE be_bytes(_, _)
be_bytes(v, k) ==
    IF k = 0 THEN <<>> ELSE Append(be_bytes(v \div 256, k - 1), v % 256)

write_u64(v) == be_bytes(v, 8)

\* Reader::read_u64
RECURSIVE be_value(_)
be_value(bs) ==
    IF bs = <<>> THEN 0
    ELSE be_value(SubSeq(bs, 1, Len(bs) - 1)) * 256 + bs[Len(bs)]

read_u64(bs) == be_value(bs)

MsgHeader_new(msg_type, len, ct) ==
    [magic |-> magic(ct), msg_type |-> msg_type, msg_len |-> len]

\* the 11 bytes of a header with magic m, type byte t and length len
header_bytes(m, t, len) == <<m[1], m[2], t>> \o write_u64(len)

MsgHeader_write_type_last(h) ==
    <<h.magic[1], h.magic[2]>> \o write_u64(h.msg_len) \o <<Type_as_u8(h.msg_type)>>

\* <MsgHeader as Writeable>::write
MsgHeader_write(h) == header_bytes(h.magic, Type_as_u8(h.msg_type), h.msg_len)

Known(h) == [tag |-> "Known", header |-> h]
Unknown(len, t) == [tag |-> "Unknown", msg_len |-> len, t |-> t]
Err(e) == [tag |-> "Err", err |-> e]
NoRes == [tag |-> "None"]

MsgHeaderWrapper_read_ge(bs, ct) ==
    LET m == magic(ct)
        t == bs[3]
        msg_len == read_u64(SubSeq(bs, 4, 11))
        msg_type == Type_from_u8(t)
    IN  IF bs[1] # m[1] THEN Err("UnexpectedData")
        ELSE IF bs[2] # m[2] THEN Err("UnexpectedData")
        ELSE IF msg_type # "None"
        THEN IF msg_len >= max_msg_size(msg_type, ct) * 4
             THEN Err("TooLargeReadErr")
             ELSE Known([magic |-> m, msg_type |-> msg_type, msg_len |-> msg_len])
        ELSE IF msg_len > default_max_msg_size(ct) * 4
             THEN Err("TooLargeReadErr")
             ELSE Unknown(msg_len, t)

MsgHeaderWrapper_read_default_unscaled(bs, ct) ==
    LET m == magic(ct)
        t == bs[3]
        msg_len == read_u64(SubSeq(bs, 4, 11))
        msg_type == Type_from_u8(t)
    IN  IF bs[1] # m[1] THEN Err("UnexpectedData")
        ELSE IF bs[2] # m[2] THEN Err("UnexpectedData")
        ELSE IF msg_type # "None"
        THEN IF msg_len > max_msg_size(msg_type, ct) * 4
             THEN Err("TooLargeReadErr")
             ELSE Known([magic |-> m, msg_type |-> msg_type, msg_len |-> msg_len])
        ELSE IF msg_len > default_max_msg_size(ct)
             THEN Err("TooLargeReadErr")
             ELSE Unknown(msg_len, t)

MsgHeaderWrapper_read_unchecked(bs, ct) ==
    LET m == magic(ct)
        t == bs[3]
        msg_len == read_u64(SubSeq(bs, 4, 11))
        msg_type == Type_from_u8(t)
    IN  IF bs[1] # m[1] THEN Err("UnexpectedData")
        ELSE IF bs[2] # m[2] THEN Err("UnexpectedData")
        ELSE IF msg_type # "None"
        THEN Known([magic |-> m, msg_type |-> msg_type, msg_len |-> msg_len])
        ELSE IF msg_len > default_max_msg_size(ct) * 4
             THEN Err("TooLargeReadErr")
             ELSE Unknown(msg_len, t)

\* <MsgHeaderWrapper as Readable>::read on the 11 bytes bs, at a node of chain ct
MsgHeaderWrapper_read(bs, ct) ==
    LET m == magic(ct)
        t == bs[3]
        msg_len == read_u64(SubSeq(bs, 4, 11))
        msg_type == Type_from_u8(t)
    IN  IF bs[1] # m[1] THEN Err("UnexpectedData")
        ELSE IF bs[2] # m[2] THEN Err("UnexpectedData")
        ELSE IF msg_type # "None"
        THEN IF msg_len > max_msg_size(msg_type, ct) * 4
             THEN Err("TooLargeReadErr")
             ELSE Known([magic |-> m, msg_type |-> msg_type, msg_len |-> msg_len])
        ELSE IF msg_len > default_max_msg_size(ct) * 4
             THEN Err("TooLargeReadErr")
             ELSE Unknown(msg_len, t)

-----------------------------------------------------------------------------
(* The inbound stream and the remote peer *)

\* the peers: a node running this code on one of the networks, or a sender
\* whose magic is wrong in its first or in its second byte only
Peers == ChainTypes \cup {"BadFirst", "BadSecond"}

\* the header a peer sends for msg_type and len: MsgHeader::new at a node
PeerHeader(msg_type, len) ==
    CASE peer \in ChainTypes -> MsgHeader_new(msg_type, len, peer)
      [] peer = "BadFirst" ->
           [magic |-> <<(magic(chain)[1] + 1) % 256, magic(chain)[2]>>,
            msg_type |-> msg_type, msg_len |-> len]
      [] peer = "BadSecond" ->
           [magic |-> <<magic(chain)[1], (magic(chain)[2] + 1) % 256>>,
            msg_type |-> msg_type, msg_len |-> len]

PeerMagic == PeerHeader("Error", 0).magic

\* (history) the code of a type in the table of message type codes
TypeCode(msg_type) ==
    CASE msg_type = "Error" -> 0 [] msg_type = "Hand" -> 1
      [] msg_type = "Shake" -> 2 [] msg_type = "Ping" -> 3
      [] msg_type = "Pong" -> 4 [] msg_type = "GetPeerAddrs" -> 5
      [] msg_type = "PeerAddrs" -> 6 [] msg_type = "GetHeaders" -> 7
      [] msg_type = "Header" -> 8 [] msg_type = "Headers" -> 9
      [] msg_type = "GetBlock" -> 10 [] msg_type = "Block" -> 11
      [] msg_type = "GetCompactBlock" -> 12 [] msg_type = "CompactBlock" -> 13
      [] msg_type = "StemTransaction" -> 14 [] msg_type = "Transaction" -> 15
      [] msg_type = "TxHashSetRequest" -> 16
      [] msg_type = "TxHashSetArchive" -> 17 [] msg_type = "BanReason" -> 18
      [] msg_type = "GetTransaction" -> 19
      [] msg_type = "TransactionKernel" -> 20
      [] msg_type = "KernelDataRequest" -> 21
      [] msg_type = "KernelDataResponse" -> 22

\* type bytes of no known type that the peer sends
UnknownBytes == {23, 200, 255}

\* a declared length far beyond every limit; its third length byte is set
HugeLen == 1073741824

\* declared lengths the peer sends with type byte t: short ones, and the
\* ones around the limit this node applies to t
LenChoices(t) ==
    LET limit == IF Type_from_u8(t) # "None"
                 THEN max_msg_size(Type_from_u8(t), chain) * 4
                 ELSE default_max_msg_size(chain) * 4
    IN  {0, 1, 10, limit, limit + 1, HugeLen}

\* body bytes the peer sends after a header declaring len: all of a short
\* body, or a part (none, or one byte) of a body
BodyChoices(len) ==
    (IF len <= MaxBody THEN {len} ELSE {0}) \cup (IF len > 1 THEN {1} ELSE {})

Fill(n) == [i \in 1..n |-> 0]

\* (history) a frame as the peer sent it: the magic, the type (None when the
\* type byte t is of no known type) and the length its header was made of,
\* the body bytes that follow, and the bytes of the frame in all
Frame(m, msg_type, t, len, nb, size) ==
    [m |-> m, msg_type |-> msg_type, t |-> t, len |-> len, nb |-> nb,
     size |-> size]

NoFrame == Frame(<<>>, "None", -1, -1, -1, -1)

\* (history) the frames and offset left after n more bytes are read
RECURSIVE Advance(_, _, _)
Advance(fs, o, n) ==
    IF fs = <<>> THEN <<fs, 0>>
    ELSE LET size == Head(fs).size
         IN  IF o + n >= size
             THEN Advance(Tail(fs), 0, n - (size - o))
             ELSE <<fs, o + n>>

PeerPut(bs, m, msg_type, t, len, nb) ==
    /\ ~peer_closed
    /\ nsent < MaxFrames
    /\ inp = <<>>
    /\ rop = "none"
    /\ inp' = inp \o bs \o Fill(nb)
    /\ frames' = Append(frames, Frame(m, msg_type, t, len, nb, Len(bs) + nb))
    /\ nsent' = nsent + 1
    /\ UNCHANGED <<chain, peer, off, peer_closed, rpc, rop, rexp, rhdr,
                   rres, rbuf, rbody, rsrc, skipped, rafter>>
    /\ UNCHANGED <<wvars, cvars, pvars>>

\* the peer sends a frame of a known type: the header as MsgHeader::write
\* writes it, with the peer's magic
PeerSendKnown ==
    \E msg_type \in Type :
      \E len \in LenChoices(TypeCode(msg_type)) :
        \E nb \in BodyChoices(len) :
          PeerPut(MsgHeader_write(PeerHeader(msg_type, len)),
                  PeerMagic, msg_type, TypeCode(msg_type), len, nb)

\* the peer sends a frame whose type byte this node does not know
PeerSendUnknown ==
    \E t \in UnknownBytes :
      \E len \in LenChoices(t) :
        \E nb \in BodyChoices(len) :
          PeerPut(header_bytes(PeerMagic, t, len),
                  PeerMagic, "None", t, len, nb)

PeerClose ==
    /\ ~peer_closed
    /\ peer_closed' = TRUE
    /\ UNCHANGED <<chain, peer, inp, frames, off, nsent, rpc, rop, rexp,
                   rhdr, rres, rbuf, rbody, rsrc, skipped, rafter>>
    /\ UNCHANGED <<wvars, cvars, pvars>>

-----------------------------------------------------------------------------
(* Async frame reader *)

\* stream.read_exact(buf) with buf of n bytes: completes with n bytes, or
\* fails at the end of a closed stream having taken what was left
ReadOk(n) == Len(inp) >= n
CanRead(n) == ReadOk(n) \/ peer_closed
Taken(n) == IF ReadOk(n) THEN n ELSE Len(inp)

Consume(n) ==
    /\ inp' = SubSeq(inp, Taken(n) + 1, Len(inp))
    /\ frames' = Advance(frames, off, Taken(n))[1]
    /\ off' = Advance(frames, off, Taken(n))[2]

\* (history) the frame a header read starts on, when it starts on one
AtFrame == IF off = 0 /\ frames # <<>> THEN Head(frames) ELSE NoFrame

\* read_header: its result on the stream as it is
read_header ==
    IF ReadOk(LEN)
    THEN MsgHeaderWrapper_read(SubSeq(inp, 1, LEN), chain)
    ELSE Err("Connection")

read_expected_header_any_known(header_type) ==
    LET w == read_header
    IN  IF w.tag = "Err" THEN w
        ELSE IF w.tag = "Known" THEN w
        ELSE Err("BadMessage")

\* read_expected_header: its result on the stream as it is
read_expected_header(header_type) ==
    LET w == read_header
    IN  IF w.tag = "Err" THEN w
        ELSE IF w.tag = "Known" /\ w.header.msg_type = header_type THEN w
        ELSE Err("BadMessage")

\* T::read on the body: the payload decoder accepts the bytes or rejects them
BodyResults(bs) == {[tag |-> "Ok", body |-> bs], Err("CorruptedData")}

\* the types a caller of read_message asks for: the one at the head of the
\* stream, and two fixed ones
ExpectChoices ==
    {"Hand", "Ping"} \cup
    (IF Len(inp) >= 3 /\ Type_from_u8(inp[3]) # "None"
     THEN {Type_from_u8(inp[3])} ELSE {})

\* a call of read_header
ReadHeader ==
    /\ rpc = "idle"
    /\ rop = "none"
    /\ CanRead(LEN)
    /\ Consume(LEN)
    /\ rop' = "read_header"
    /\ rexp' = "None"
    /\ rbuf' = LEN
    /\ rhdr' = read_header
    /\ rres' = read_header
    /\ rbody' = 0
    /\ rsrc' = AtFrame
    /\ rafter' = skipped
    /\ skipped' = NoFrame
    /\ UNCHANGED <<chain, peer, peer_closed, nsent, rpc>>
    /\ UNCHANGED <<wvars, cvars, pvars>>

\* a call of read_message, up to the end of its header stage: the error is
\* returned, or buf is resized to the declared length and the body awaited
ReadMessageHeader ==
    \E msg_type \in ExpectChoices :
      LET h == read_expected_header(msg_type)
      IN  /\ rpc = "idle"
          /\ rop = "none"
          /\ CanRead(LEN)
          /\ Consume(LEN)
          /\ rop' = "read_message"
          /\ rexp' = msg_type
          /\ rhdr' = h
          /\ rbody' = 0
          /\ rsrc' = AtFrame
          /\ rafter' = skipped
          /\ skipped' = NoFrame
          /\ IF h.tag = "Known"
             THEN /\ rpc' = "body"
                  /\ rbuf' = h.header.msg_len
                  /\ rres' = NoRes
             ELSE /\ rpc' = "idle"
                  /\ rbuf' = LEN
                  /\ rres' = h
          /\ UNCHANGED <<chain, peer, peer_closed, nsent>>
          /\ UNCHANGED <<wvars, cvars, pvars>>

\* read_message, its body stage (read_body)
ReadMessageBody ==
    LET len == rhdr.header.msg_len
    IN  /\ rpc = "body"
        /\ CanRead(len)
        /\ Consume(len)
        /\ rbody' = Taken(len)
        /\ rpc' = "idle"
        /\ IF ReadOk(len)
           THEN rres' \in BodyResults(SubSeq(inp, 1, len))
           ELSE rres' = Err("Connection")
        /\ UNCHANGED <<chain, peer, peer_closed, nsent, rop, rexp, rhdr,
                       rbuf, rsrc, skipped, rafter>>
        /\ UNCHANGED <<wvars, cvars, pvars>>

\* the caller of read_header skips a message of unknown type: it discards
\* exactly the declared number of bytes from the stream
Discard ==
    /\ rpc = "idle"
    /\ rop = "read_header"
    /\ rres.tag = "Unknown"
    /\ CanRead(rres.msg_len)
    /\ Consume(rres.msg_len)
    /\ rop' = "discard"
    /\ rres' = IF ReadOk(rres.msg_len) THEN [tag |-> "Skipped"]
               ELSE Err("Connection")
    /\ skipped' = IF ReadOk(rres.msg_len) /\ rsrc.nb = rsrc.len THEN rsrc
                  ELSE NoFrame
    /\ UNCHANGED <<chain, peer, peer_closed, nsent, rpc, rexp, rhdr,
                   rbuf, rbody, rsrc, rafter>>
    /\ UNCHANGED <<wvars, cvars, pvars>>

\* the caller has taken the result of a read that succeeded and goes on to
\* the next message; buf is dropped. After an error the connection is given
\* up, and a message of unknown type is skipped first.
Handled ==
    /\ rpc = "idle"
    /\ rres.tag \in {"Known", "Ok", "Skipped"}
    /\ rop' = "none"
    /\ rexp' = "None"
    /\ rhdr' = NoRes
    /\ rres' = NoRes
    /\ rbuf' = 0
    /\ rbody' = 0
    /\ rsrc' = NoFrame
    /\ rafter' = NoFrame
    /\ UNCHANGED <<chain, peer, inp, frames, off, peer_closed, nsent,
                   rpc, skipped>>
    /\ UNCHANGED <<wvars, cvars, pvars>>

-----------------------------------------------------------------------------
(* Message envelope *)

NoFile == -1

Msg_new_frame_length(msg_type, body, ct) ==
    [header |-> MsgHeader_new(msg_type, LEN + Len(body), ct),
     body |-> body,
     attachment |-> NoFile]

\* Msg::new: body is the serialized payload, the header declares its length
Msg_new(msg_type, body, ct) ==
    [header |-> MsgHeader_new(msg_type, Len(body), ct),
     body |-> body,
     attachment |-> NoFile]

\* Msg::from_parts: header and body as given
Msg_from_parts(header, body) ==
    [header |-> header, body |-> body, attachment |-> NoFile]

\* Msg::add_attachment; a file is modelled by its size in bytes
Msg_add_attachment(msg, file) ==
    [msg EXCEPT !.attachment = file]

-----------------------------------------------------------------------------
(* Async frame writer *)

CHUNK_16k == 16 * 1024

\* the size buf is resized to before each read of the attachment: 8 * 1024
CHUNK == 8 * 1024

\* messages sent on the outbound stream
MaxMsgs == 1
\* reads of the attachment, per message, that return less than was asked
\* for although more is left in the file
MaxShort == 1

\* types, serialized bodies, attachment sizes and declared lengths of the
\* messages this node sends
WriteTypes == {"Ping", "TxHashSetArchive"}
WriteBodies == {<<>>, <<7, 9>>}
FileSizes == {0, CHUNK, 20000}
PartsLens == {5}

\* what the counters of the shared tracker hold before the first message
TrackerStarts == {0, 1000}

\* sizes of a short read
ShortReads == {4096}

\* file.read(&mut buf) with buf of CHUNK bytes and rem bytes left: 0 at the
\* end of the file only, else up to CHUNK bytes
ReadSizes(rem, short_left) ==
    LET full == IF rem < CHUNK THEN rem ELSE CHUNK
    IN  {full} \cup (IF short_left > 0 THEN {k \in ShortReads : k < full} ELSE {})

\* a caller builds the next message with Msg::new, as write_header_body does
BuildNew ==
    /\ wpc = "idle"
    /\ wmsg = <<>>
    /\ Len(msgs) < MaxMsgs
    /\ \E msg_type \in WriteTypes, body \in WriteBodies :
         wmsg' = Msg_new(msg_type, body, chain)
    /\ origin' = "new"
    /\ UNCHANGED <<wpc, out, msgs, sent_bytes, quiet_bytes, file_rem, wn,
                   nshort, reads, sent0, quiet0, wres>>
    /\ UNCHANGED <<rvars, cvars, pvars>>

\* a caller builds the next message from parts
BuildFromParts ==
    /\ wpc = "idle"
    /\ wmsg = <<>>
    /\ Len(msgs) < MaxMsgs
    /\ \E msg_type \in WriteTypes, len \in PartsLens, body \in WriteBodies :
         wmsg' = Msg_from_parts(MsgHeader_new(msg_type, len, chain), body)
    /\ origin' = "from_parts"
    /\ UNCHANGED <<wpc, out, msgs, sent_bytes, quiet_bytes, file_rem, wn,
                   nshort, reads, sent0, quiet0, wres>>
    /\ UNCHANGED <<rvars, cvars, pvars>>

\* the caller attaches a file to the message
AddAttachment ==
    /\ wpc = "idle"
    /\ wmsg # <<>>
    /\ wmsg.attachment = NoFile
    /\ \E file \in FileSizes : wmsg' = Msg_add_attachment(wmsg, file)
    /\ UNCHANGED <<wpc, out, msgs, sent_bytes, quiet_bytes, file_rem, wn,
                   nshort, reads, sent0, quiet0, wres, origin>>
    /\ UNCHANGED <<rvars, cvars, pvars>>

FrameLen_body_only(msg) == Len(msg.body)

\* let len = MsgHeader::LEN + msg.body.len()
FrameLen(msg) == LEN + Len(msg.body)

FrameBytes_header_only(msg) == MsgHeader_write(msg.header)

\* the buffer write_message fills: the header, then the body
FrameBytes(msg) == MsgHeader_write(msg.header) \o msg.body

\* an entry of out: one write_all call on the stream, for message number
\* msg, with the bytes (or, for attachment data, their count) and whether
\* the call completed
FrameWrite(k, bs, ok) ==
    [msg |-> k, kind |-> "frame", bytes |-> bs, n |-> Len(bs), ok |-> ok]
ChunkWrite(k, n, ok) ==
    [msg |-> k, kind |-> "attachment", bytes |-> <<>>, n |-> n, ok |-> ok]

Fail_retry(e) ==
    /\ wpc' = "read"
    /\ wres' = wres

Fail(e) ==
    /\ wpc' = "failed"
    /\ wres' = Err(e)

\* write_message, to the end of stream.write_all(&split): header and body
\* go to the stream in one write_all call, which completes or fails
WriteFrame ==
    /\ wpc = "idle"
    /\ wmsg # <<>>
    /\ msgs' = Append(msgs, wmsg)
    /\ nshort' = 0
    /\ reads' = <<>>
    /\ wn' = 0
    /\ \/ /\ out' = Append(out, FrameWrite(Len(msgs) + 1, FrameBytes(wmsg), TRUE))
          /\ wpc' = "inc_sent"
       \/ /\ out' = Append(out, FrameWrite(Len(msgs) + 1, FrameBytes(wmsg), FALSE))
          /\ wpc' = "failed"
    /\ wres' = IF wpc' = "failed" THEN Err("Connection") ELSE NoRes
    /\ sent0' = sent_bytes
    /\ quiet0' = quiet_bytes
    /\ UNCHANGED <<origin, wmsg, sent_bytes, quiet_bytes, file_rem>>
    /\ UNCHANGED <<rvars, cvars, pvars>>

\* tracker.inc_sent(len), then the test for an attachment
IncSent ==
    /\ wpc = "inc_sent"
    /\ sent_bytes' = sent_bytes + FrameLen(wmsg)
    /\ IF wmsg.attachment # NoFile
       THEN wpc' = "try_clone" /\ wres' = wres
       ELSE wpc' = "done" /\ wres' = [tag |-> "Ok"]
    /\ UNCHANGED <<origin, wmsg, out, msgs, quiet_bytes, file_rem, wn, nshort>>
    /\ UNCHANGED <<reads, sent0, quiet0>>
    /\ UNCHANGED <<rvars, cvars, pvars>>

\* file.try_clone(): a handle on the attachment, or an error
TryClone ==
    /\ wpc = "try_clone"
    /\ \/ /\ wpc' = "read"
          /\ file_rem' = wmsg.attachment
          /\ wres' = wres
       \/ /\ Fail("Connection")
          /\ file_rem' = file_rem
    /\ UNCHANGED <<origin, wmsg, out, msgs, sent_bytes, quiet_bytes, wn, nshort>>
    /\ UNCHANGED <<reads, sent0, quiet0>>
    /\ UNCHANGED <<rvars, cvars, pvars>>

AttachmentRead_no_break ==
    /\ wpc = "read"
    /\ \/ \E n \in ReadSizes(file_rem, MaxShort - nshort) :
            /\ wn' = n
            /\ file_rem' = file_rem - n
            /\ nshort' = IF n < CHUNK /\ n < file_rem THEN nshort + 1 ELSE nshort
            /\ reads' = IF n = 0 THEN reads ELSE Append(reads, n)
            /\ wpc' = "write" /\ wres' = wres
       \/ /\ Fail("Connection")
          /\ UNCHANGED <<wn, file_rem, nshort, reads>>
    /\ UNCHANGED <<origin, wmsg, out, msgs, sent_bytes, quiet_bytes>>
    /\ UNCHANGED <<sent0, quiet0>>
    /\ UNCHANGED <<rvars, cvars, pvars>>

\* buf.resize(8 * 1024, 0); file.read(&mut buf): n bytes, 0 ends the loop
AttachmentRead ==
    /\ wpc = "read"
    /\ \/ \E n \in ReadSizes(file_rem, MaxShort - nshort) :
            /\ wn' = n
            /\ file_rem' = file_rem - n
            /\ nshort' = IF n < CHUNK /\ n < file_rem THEN nshort + 1 ELSE nshort
            /\ reads' = IF n = 0 THEN reads ELSE Append(reads, n)
            /\ IF n = 0
               THEN wpc' = "done" /\ wres' = [tag |-> "Ok"]
               ELSE wpc' = "write" /\ wres' = wres
       \/ /\ Fail("Connection")
          /\ UNCHANGED <<wn, file_rem, nshort, reads>>
    /\ UNCHANGED <<origin, wmsg, out, msgs, sent_bytes, quiet_bytes>>
    /\ UNCHANGED <<sent0, quiet0>>
    /\ UNCHANGED <<rvars, cvars, pvars>>

\* buf.truncate(n); stream.write_all(&split): the chunk goes to the stream
AttachmentWrite ==
    /\ wpc = "write"
    /\ \/ /\ out' = Append(out, ChunkWrite(Len(msgs), wn, TRUE))
          /\ wpc' = "inc_quiet"
          /\ wres' = wres
       \/ /\ out' = Append(out, ChunkWrite(Len(msgs), wn, FALSE))
          /\ Fail("Connection")
    /\ UNCHANGED <<origin, wmsg, msgs, sent_bytes, quiet_bytes, file_rem, wn, nshort>>
    /\ UNCHANGED <<reads, sent0, quiet0>>
    /\ UNCHANGED <<rvars, cvars, pvars>>

\* tracker.inc_quiet_sent(n), and round the loop
IncQuietSent ==
    /\ wpc = "inc_quiet"
    /\ quiet_bytes' = quiet_bytes + wn
    /\ wpc' = "read"
    /\ UNCHANGED <<origin, wmsg, out, msgs, sent_bytes, file_rem, wn, nshort, wres>>
    /\ UNCHANGED <<reads, sent0, quiet0>>
    /\ UNCHANGED <<rvars, cvars, pvars>>

\* write_message has returned Ok(()): the caller goes on to its next message
Sent ==
    /\ wpc = "done"
    /\ wpc' = "idle"
    /\ wmsg' = <<>>
    /\ UNCHANGED <<out, msgs, sent_bytes, quiet_bytes, file_rem, wn, nshort,
                   wres>>
    /\ UNCHANGED <<reads, sent0, quiet0, origin>>
    /\ UNCHANGED <<rvars, cvars, pvars>>

-----------------------------------------------------------------------------
(* Serialization primitives (core::ser) and the field types of the payloads *)

\* what a read leaves: the value and the bytes after it, or the error
Rd(v, rest) == [ok |-> TRUE, v |-> v, rest |-> rest]
RdErr(e) == [ok |-> FALSE, err |-> e]

\* Writer::write_u8, write_u16, write_u32, write_i32: big-endian, fixed width
write_u8(v) == be_bytes(v, 1)
write_u16(v) == be_bytes(v, 2)
write_u32(v) == be_bytes(v, 4)
write_i32(v) == be_bytes(v, 4)

\* Writer::write_bytes: the length as u64, then the bytes
write_bytes(bs) == write_u64(Len(bs)) \o bs

\* Reader::read_fixed_bytes: n bytes, or an I/O error at the end of the body
Reader_read_fixed_bytes(bs, n) ==
    IF Len(bs) >= n
    THEN Rd(SubSeq(bs, 1, n), SubSeq(bs, n + 1, Len(bs)))
    ELSE RdErr("IOErr")

\* Reader::read_u8 .. read_u64: n bytes, read as a big-endian unsigned number
Reader_read_uint(bs, n) ==
    LET r == Reader_read_fixed_bytes(bs, n)
    IN  IF r.ok THEN Rd(be_value(r.v), r.rest) ELSE r

Reader_read_u8(bs) == Reader_read_uint(bs, 1)
Reader_read_u16(bs) == Reader_read_uint(bs, 2)
Reader_read_u32(bs) == Reader_read_uint(bs, 4)
Reader_read_u64(bs) == Reader_read_uint(bs, 8)

\* Reader::read_i32: four bytes, two's complement
Reader_read_i32(bs) ==
    LET r == Reader_read_fixed_bytes(bs, 4)
    IN  IF r.ok
        THEN Rd(be_value(<<IF r.v[1] >= 128 THEN r.v[1] - 256 ELSE r.v[1],
                           r.v[2], r.v[3], r.v[4]>>), r.rest)
        ELSE r

\* Reader::read_bytes_len_prefix: the length as u64, then that many bytes
Reader_read_bytes_len_prefix(bs) ==
    LET r == Reader_read_u64(bs)
    IN  IF r.ok THEN Reader_read_fixed_bytes(r.rest, r.v) ELSE r

\* String::from_utf8: ASCII bytes, and two-byte sequences, are accepted
RECURSIVE utf8_ok(_)
utf8_ok(bs) ==
    IF bs = <<>> THEN TRUE
    ELSE IF bs[1] < 128 THEN utf8_ok(Tail(bs))
    ELSE IF bs[1] \in 194..223 /\ Len(bs) >= 2 /\ bs[2] \in 128..191
         THEN utf8_ok(Tail(Tail(bs)))
    ELSE FALSE

String_from_utf8(bs) == IF utf8_ok(bs) THEN Rd(bs, <<>>) ELSE RdErr("CorruptedData")

\* ProtocolVersion: a u32
ProtocolVersion_write(version) == write_u32(version)
ProtocolVersion_read(bs) == Reader_read_u32(bs)

\* Capabilities: a bitset in a u32; the bits that are defined are the four
\* lowest ones, and from_bits_truncate drops the others
Capabilities_all == 15
Capabilities_bits(capabilities) == capabilities
Capabilities_from_bits_truncate(capab) == capab % (Capabilities_all + 1)

\* Difficulty: a u64
Difficulty_write(d) == write_u64(d)
Difficulty_read(bs) == Reader_read_u64(bs)

\* Hash: 32 bytes
Hash_LEN == 32
Hash_write(h) == h
Hash_read(bs) == Reader_read_fixed_bytes(bs, Hash_LEN)

\* PeerAddr: a socket address. On the wire 0, the four bytes of the address
\* and the port for IPv4; 1, the eight 16-bit segments and the port for IPv6
V4(ip, port) == [v |-> 4, ip |-> ip, port |-> port]
V6(ip, port) == [v |-> 6, ip |-> ip, port |-> port]

RECURSIVE write_segments(_)
write_segments(segs) ==
    IF segs = <<>> THEN <<>> ELSE write_u16(Head(segs)) \o write_segments(Tail(segs))

RECURSIVE read_segments(_)
read_segments(bs) ==
    IF bs = <<>> THEN <<>>
    ELSE <<be_value(SubSeq(bs, 1, 2))>> \o read_segments(SubSeq(bs, 3, Len(bs)))

PeerAddr_write(a) ==
    IF a.v = 4
    THEN write_u8(0) \o a.ip \o write_u16(a.port)
    ELSE write_u8(1) \o write_segments(a.ip) \o write_u16(a.port)

PeerAddr_read(bs) ==
    LET r0 == Reader_read_u8(bs)
        r4 == Reader_read_fixed_bytes(r0.rest, 4)
        r6 == Reader_read_fixed_bytes(r0.rest, 16)
        ra == IF r0.v = 0 THEN r4 ELSE r6
        rp == Reader_read_u16(ra.rest)
    IN  IF ~r0.ok THEN r0
        ELSE IF ~ra.ok THEN ra
        ELSE IF ~rp.ok THEN rp
        ELSE IF r0.v = 0 THEN Rd(V4(ra.v, rp.v), rp.rest)
        ELSE Rd(V6(read_segments(ra.v), rp.v), rp.rest)

\* ReasonForBan and ReasonForBan::from_i32 (enum_from_primitive!): the
\* reason with that discriminant, or none
ReasonForBanTable ==
    << "None", "BadBlock", "BadCompactBlock", "BadBlockHeader",
       "BadTxHashSet", "ManualBan", "FraudHeight", "BadHandshake" >>

ReasonForBan == {ReasonForBanTable[i] : i \in 1..Len(ReasonForBanTable)}

ReasonForBan_as_i32(reason) ==
    (CHOOSE i \in 1..Len(ReasonForBanTable) : ReasonForBanTable[i] = reason) - 1

ReasonForBan_from_i32(c) ==
    IF c + 1 \in 1..Len(ReasonForBanTable)
    THEN Rd(ReasonForBanTable[c + 1], <<>>)
    ELSE RdErr("CorruptedData")

-----------------------------------------------------------------------------
(* Payload codecs *)

Hand_write_genesis_fourth(x) ==
    ProtocolVersion_write(x.version)
      \o write_u32(Capabilities_bits(x.capabilities))
      \o write_u64(x.nonce)
      \o Hash_write(x.genesis)
      \o Difficulty_write(x.total_difficulty)
      \o PeerAddr_write(x.sender_addr)
      \o PeerAddr_write(x.receiver_addr)
      \o write_bytes(x.user_agent)

\* <Hand as Writeable>::write
Hand_write(x) ==
    ProtocolVersion_write(x.version)
      \o write_u32(Capabilities_bits(x.capabilities))
      \o write_u64(x.nonce)
      \o Difficulty_write(x.total_difficulty)
      \o PeerAddr_write(x.sender_addr)
      \o PeerAddr_write(x.receiver_addr)
      \o write_bytes(x.user_agent)
      \o Hash_write(x.genesis)

Hand_read_addrs_swapped(bs) ==
    LET version == ProtocolVersion_read(bs)
        capab == Reader_read_u32(version.rest)
        nonce == Reader_read_u64(capab.rest)
        total_difficulty == Difficulty_read(nonce.rest)
        receiver_addr == PeerAddr_read(total_difficulty.rest)
        sender_addr == PeerAddr_read(receiver_addr.rest)
        ua == Reader_read_bytes_len_prefix(sender_addr.rest)
        user_agent == String_from_utf8(ua.v)
        genesis == Hash_read(ua.rest)
    IN  IF ~version.ok THEN version
        ELSE IF ~capab.ok THEN capab
        ELSE IF ~nonce.ok THEN nonce
        ELSE IF ~total_difficulty.ok THEN total_difficulty
        ELSE IF ~receiver_addr.ok THEN receiver_addr
        ELSE IF ~sender_addr.ok THEN sender_addr
        ELSE IF ~ua.ok THEN ua
        ELSE IF ~user_agent.ok THEN user_agent
        ELSE IF ~genesis.ok THEN genesis
        ELSE Rd([version |-> version.v,
                 capabilities |-> Capabilities_from_bits_truncate(capab.v),
                 nonce |-> nonce.v,
                 genesis |-> genesis.v,
                 total_difficulty |-> total_difficulty.v,
                 sender_addr |-> sender_addr.v,
                 receiver_addr |-> receiver_addr.v,
                 user_agent |-> user_agent.v], genesis.rest)

\* <Hand as Readable>::read
Hand_read(bs) ==
    LET version == ProtocolVersion_read(bs)
        capab == Reader_read_u32(version.rest)
        nonce == Reader_read_u64(capab.rest)
        total_difficulty == Difficulty_read(nonce.rest)
        sender_addr == PeerAddr_read(total_difficulty.rest)
        receiver_addr == PeerAddr_read(sender_addr.rest)
        ua == Reader_read_bytes_len_prefix(receiver_addr.rest)
        user_agent == String_from_utf8(ua.v)
        genesis == Hash_read(ua.rest)
    IN  IF ~version.ok THEN version
        ELSE IF ~capab.ok THEN capab
        ELSE IF ~nonce.ok THEN nonce
        ELSE IF ~total_difficulty.ok THEN total_difficulty
        ELSE IF ~sender_addr.ok THEN sender_addr
        ELSE IF ~receiver_addr.ok THEN receiver_addr
        ELSE IF ~ua.ok THEN ua
        ELSE IF ~user_agent.ok THEN user_agent
        ELSE IF ~genesis.ok THEN genesis
        ELSE Rd([version |-> version.v,
                 capabilities |-> Capabilities_from_bits_truncate(capab.v),
                 nonce |-> nonce.v,
                 genesis |-> genesis.v,
                 total_difficulty |-> total_difficulty.v,
                 sender_addr |-> sender_addr.v,
                 receiver_addr |-> receiver_addr.v,
                 user_agent |-> user_agent.v], genesis.rest)

Shake_write_genesis_third(x) ==
    ProtocolVersion_write(x.version)
      \o write_u32(Capabilities_bits(x.capabilities))
      \o Hash_write(x.genesis)
      \o Difficulty_write(x.total_difficulty)
      \o write_bytes(x.user_agent)

\* <Shake as Writeable>::write
Shake_write(x) ==
    ProtocolVersion_write(x.version)
      \o write_u32(Capabilities_bits(x.capabilities))
      \o Difficulty_write(x.total_difficulty)
      \o write_bytes(x.user_agent)
      \o Hash_write(x.genesis)

\* <Shake as Readable>::read
Shake_read(bs) ==
    LET version == ProtocolVersion_read(bs)
        capab == Reader_read_u32(version.rest)
        total_difficulty == Difficulty_read(capab.rest)
        ua == Reader_read_bytes_len_prefix(total_difficulty.rest)
        user_agent == String_from_utf8(ua.v)
        genesis == Hash_read(ua.rest)
    IN  IF ~version.ok THEN version
        ELSE IF ~capab.ok THEN capab
        ELSE IF ~total_difficulty.ok THEN total_difficulty
        ELSE IF ~ua.ok THEN ua
        ELSE IF ~user_agent.ok THEN user_agent
        ELSE IF ~genesis.ok THEN genesis
        ELSE Rd([version |-> version.v,
                 capabilities |-> Capabilities_from_bits_truncate(capab.v),
                 genesis |-> genesis.v,
                 total_difficulty |-> total_difficulty.v,
                 user_agent |-> user_agent.v], genesis.rest)

\* GetPeerAddrs
GetPeerAddrs_write(x) == write_u32(Capabilities_bits(x.capabilities))

GetPeerAddrs_read(bs) ==
    LET capab == Reader_read_u32(bs)
    IN  IF ~capab.ok THEN capab
        ELSE Rd([capabilities |-> Capabilities_from_bits_truncate(capab.v)],
                capab.rest)

\* for p in &self.peers { p.write(writer)? }
RECURSIVE PeerAddr_write_all(_)
PeerAddr_write_all(peers) ==
    IF peers = <<>> THEN <<>>
    ELSE PeerAddr_write(Head(peers)) \o PeerAddr_write_all(Tail(peers))

\* <PeerAddrs as Writeable>::write
PeerAddrs_write(x) == write_u32(Len(x.peers)) \o PeerAddr_write_all(x.peers)

\* for _ in 0..peer_count { peers.push(PeerAddr::read(reader)?) }
RECURSIVE PeerAddr_read_n(_, _)
PeerAddr_read_n(bs, n) ==
    IF n = 0 THEN Rd(<<>>, bs)
    ELSE LET p == PeerAddr_read(bs)
             more == PeerAddr_read_n(p.rest, n - 1)
         IN  IF ~p.ok THEN p
             ELSE IF ~more.ok THEN more
             ELSE Rd(<<p.v>> \o more.v, more.rest)

PeerAddrs_read_elements_first(bs) ==
    LET peer_count == Reader_read_u32(bs)
        peers == PeerAddr_read_n(peer_count.rest, peer_count.v)
    IN  IF ~peer_count.ok THEN peer_count
        ELSE IF peer_count.v = 0 THEN Rd([peers |-> <<>>], peer_count.rest)
        ELSE IF ~peers.ok THEN peers
        ELSE IF peer_count.v > MAX_PEER_ADDRS THEN RdErr("TooLargeReadErr")
        ELSE Rd([peers |-> peers.v], peers.rest)

\* <PeerAddrs as Readable>::read
PeerAddrs_read(bs) ==
    LET peer_count == Reader_read_u32(bs)
        peers == PeerAddr_read_n(peer_count.rest, peer_count.v)
    IN  IF ~peer_count.ok THEN peer_count
        ELSE IF peer_count.v > MAX_PEER_ADDRS THEN RdErr("TooLargeReadErr")
        ELSE IF peer_count.v = 0 THEN Rd([peers |-> <<>>], peer_count.rest)
        ELSE IF ~peers.ok THEN peers
        ELSE Rd([peers |-> peers.v], peers.rest)

\* PeerError
PeerError_write(x) == write_u32(x.code) \o write_bytes(x.message)

PeerError_read(bs) ==
    LET code == Reader_read_u32(bs)
        msg == Reader_read_bytes_len_prefix(code.rest)
        message == String_from_utf8(msg.v)
    IN  IF ~code.ok THEN code
        ELSE IF ~msg.ok THEN msg
        ELSE IF ~message.ok THEN message
        ELSE Rd([code |-> code.v, message |-> message.v], msg.rest)

\* for h in &self.hashes { h.write(writer)? }
RECURSIVE Hash_write_all(_)
Hash_write_all(hashes) ==
    IF hashes = <<>> THEN <<>>
    ELSE Hash_write(Head(hashes)) \o Hash_write_all(Tail(hashes))

\* <Locator as Writeable>::write: the count is `self.hashes.len() as u8`
Locator_write(x) == write_u8(Len(x.hashes) % 256) \o Hash_write_all(x.hashes)

\* for _ in 0..len { hashes.push(Hash::read(reader)?) }
RECURSIVE Hash_read_n(_, _)
Hash_read_n(bs, n) ==
    IF n = 0 THEN Rd(<<>>, bs)
    ELSE LET h == Hash_read(bs)
             more == Hash_read_n(h.rest, n - 1)
         IN  IF ~h.ok THEN h
             ELSE IF ~more.ok THEN more
             ELSE Rd(<<h.v>> \o more.v, more.rest)

\* <Locator as Readable>::read: the bound is `MAX_LOCATORS as u8`
Locator_read(bs) ==
    LET len == Reader_read_u8(bs)
        hashes == Hash_read_n(len.rest, len.v)
    IN  IF ~len.ok THEN len
        ELSE IF len.v > MAX_LOCATORS % 256 THEN RdErr("TooLargeReadErr")
        ELSE IF ~hashes.ok THEN hashes
        ELSE Rd([hashes |-> hashes.v], hashes.rest)

\* BlockHeader: a header record, written and read by core as one unit; in
\* the model a record is this many bytes
HeaderRecordLen == 3

BlockHeader_write(h) == h
BlockHeader_read(bs) == Reader_read_fixed_bytes(bs, HeaderRecordLen)

\* for h in &self.headers { h.write(writer)? }
RECURSIVE BlockHeader_write_all(_)
BlockHeader_write_all(headers) ==
    IF headers = <<>> THEN <<>>
    ELSE BlockHeader_write(Head(headers)) \o BlockHeader_write_all(Tail(headers))

\* <Headers as Writeable>::write: the count is `self.headers.len() as u16`
Headers_write(x) ==
    write_u16(Len(x.headers) % 65536) \o BlockHeader_write_all(x.headers)

RECURSIVE BlockHeader_read_n(_, _)
BlockHeader_read_n(bs, n) ==
    IF n = 0 THEN Rd(<<>>, bs)
    ELSE LET h == BlockHeader_read(bs)
             more == BlockHeader_read_n(h.rest, n - 1)
         IN  IF ~h.ok THEN h
             ELSE IF ~more.ok THEN more
             ELSE Rd(<<h.v>> \o more.v, more.rest)

\* the reader of a header list: a u16 count, then that many header records
Headers_read(bs) ==
    LET count == Reader_read_u16(bs)
        headers == BlockHeader_read_n(count.rest, count.v)
    IN  IF ~count.ok THEN count
        ELSE IF ~headers.ok THEN headers
        ELSE Rd([headers |-> headers.v], headers.rest)

\* Ping and Pong
Ping_write(x) == Difficulty_write(x.total_difficulty) \o write_u64(x.height)

Ping_read(bs) ==
    LET total_difficulty == Difficulty_read(bs)
        height == Reader_read_u64(total_difficulty.rest)
    IN  IF ~total_difficulty.ok THEN total_difficulty
        ELSE IF ~height.ok THEN height
        ELSE Rd([total_difficulty |-> total_difficulty.v, height |-> height.v],
                height.rest)

Pong_write(x) == Difficulty_write(x.total_difficulty) \o write_u64(x.height)

Pong_read(bs) ==
    LET total_difficulty == Difficulty_read(bs)
        height == Reader_read_u64(total_difficulty.rest)
    IN  IF ~total_difficulty.ok THEN total_difficulty
        ELSE IF ~height.ok THEN height
        ELSE Rd([total_difficulty |-> total_difficulty.v, height |-> height.v],
                height.rest)

\* <BanReason as Writeable>::write
BanReason_write(x) == write_i32(ReasonForBan_as_i32(x.ban_reason))

BanReason_read_propagate(bs) ==
    LET r == Reader_read_i32(bs)
        ban_reason == ReasonForBan_from_i32(r.v)
    IN  IF ~r.ok THEN r
        ELSE IF ~ban_reason.ok THEN ban_reason
        ELSE Rd([ban_reason |-> ban_reason.v], r.rest)

\* <BanReason as Readable>::read: a failed read of the code gives the code 0
BanReason_read(bs) ==
    LET r == Reader_read_i32(bs)
        ban_reason_i32 == IF r.ok THEN r.v ELSE 0
        ban_reason == ReasonForBan_from_i32(ban_reason_i32)
    IN  IF ~ban_reason.ok THEN ban_reason
        ELSE Rd([ban_reason |-> ban_reason.v], IF r.ok THEN r.rest ELSE bs)

\* TxHashSetRequest
TxHashSetRequest_write(x) == Hash_write(x.hash) \o write_u64(x.height)

TxHashSetRequest_read(bs) ==
    LET hash == Hash_read(bs)
        height == Reader_read_u64(hash.rest)
    IN  IF ~hash.ok THEN hash
        ELSE IF ~height.ok THEN height
        ELSE Rd([hash |-> hash.v, height |-> height.v], height.rest)

\* TxHashSetArchive
TxHashSetArchive_write(x) ==
    Hash_write(x.hash) \o write_u64(x.height) \o write_u64(x.bytes)

TxHashSetArchive_read(bs) ==
    LET hash == Hash_read(bs)
        height == Reader_read_u64(hash.rest)
        bytes == Reader_read_u64(height.rest)
    IN  IF ~hash.ok THEN hash
        ELSE IF ~height.ok THEN height
        ELSE IF ~bytes.ok THEN bytes
        ELSE Rd([hash |-> hash.v, height |-> height.v, bytes |-> bytes.v],
                bytes.rest)

\* KernelDataRequest: nothing is written, and nothing is there to read
KernelDataRequest_write(x) == <<>>
KernelDataRequest_read(bs) == Rd([unit |-> TRUE], bs)

\* KernelDataResponse
KernelDataResponse_write(x) == write_u64(x.bytes)

KernelDataResponse_read(bs) ==
    LET bytes == Reader_read_u64(bs)
    IN  IF ~bytes.ok THEN bytes ELSE Rd([bytes |-> bytes.v], bytes.rest)

\* the payload types that have a codec here, by the message type they travel as
PayloadKinds ==
    {"Hand", "Shake", "Ping", "Pong", "GetPeerAddrs", "PeerAddrs", "Error",
     "GetHeaders", "Headers", "BanReason", "TxHashSetRequest",
     "TxHashSetArchive", "KernelDataRequest", "KernelDataResponse"}

\* msg.write(writer), in ser::ser_vec
Payload_write(kind, x) ==
    CASE kind = "Hand" -> Hand_write(x)
      [] kind = "Shake" -> Shake_write(x)
      [] kind = "Ping" -> Ping_write(x)
      [] kind = "Pong" -> Pong_write(x)
      [] kind = "GetPeerAddrs" -> GetPeerAddrs_write(x)
      [] kind = "PeerAddrs" -> PeerAddrs_write(x)
      [] kind = "Error" -> PeerError_write(x)
      [] kind = "GetHeaders" -> Locator_write(x)
      [] kind = "Headers" -> Headers_write(x)
      [] kind = "BanReason" -> BanReason_write(x)
      [] kind = "TxHashSetRequest" -> TxHashSetRequest_write(x)
      [] kind = "TxHashSetArchive" -> TxHashSetArchive_write(x)
      [] kind = "KernelDataRequest" -> KernelDataRequest_write(x)
      [] kind = "KernelDataResponse" -> KernelDataResponse_write(x)

\* T::read(&mut reader), in read_body
Payload_read(kind, bs) ==
    CASE kind = "Hand" -> Hand_read(bs)
      [] kind = "Shake" -> Shake_read(bs)
      [] kind = "Ping" -> Ping_read(bs)
      [] kind = "Pong" -> Pong_read(bs)
      [] kind = "GetPeerAddrs" -> GetPeerAddrs_read(bs)
      [] kind = "PeerAddrs" -> PeerAddrs_read(bs)
      [] kind = "Error" -> PeerError_read(bs)
      [] kind = "GetHeaders" -> Locator_read(bs)
      [] kind = "Headers" -> Headers_read(bs)
      [] kind = "BanReason" -> BanReason_read(bs)
      [] kind = "TxHashSetRequest" -> TxHashSetRequest_read(bs)
      [] kind = "TxHashSetArchive" -> TxHashSetArchive_read(bs)
      [] kind = "KernelDataRequest" -> KernelDataRequest_read(bs)
      [] kind = "KernelDataResponse" -> KernelDataResponse_read(bs)

-----------------------------------------------------------------------------
(* The payloads written and the bodies read *)

\* lists of at most this many elements are written, besides the longest
\* locator the reader accepts
MaxList == 2

SeqsUpTo(S, n) == UNION {[1..k -> S] : k \in 0..n}

ZERO_HASH == [i \in 1..Hash_LEN |-> 0]
GenesisHash == [i \in 1..Hash_LEN |-> 100 + i]
Hashes == {ZERO_HASH, GenesisHash}

Addrs ==
    {V4(<<127, 0, 0, 1>>, 3414), V4(<<127, 0, 0, 1>>, 3415),
     V6(<<0, 0, 0, 0, 0, 0, 0, 1>>, 13414)}

\* "testnode/1.0", the empty string, and "e" with an acute accent
TestAgent == <<116, 101, 115, 116, 110, 111, 100, 101, 47, 49, 46, 48>>
Agents == {TestAgent, <<>>, <<195, 169>>}

Versions == {3}
CapabilitySets == {0, Capabilities_all}
Numbers == {0, 1000}
HeaderRecords == {[i \in 1..HeaderRecordLen |-> 7], [i \in 1..HeaderRecordLen |-> 0]}

ManyHashes(n) == [i \in 1..n |-> [j \in 1..Hash_LEN |-> i]]

\* the payloads a node serializes, by type
Values(kind) ==
    CASE kind = "Hand" ->
           [version : Versions, capabilities : CapabilitySets, nonce : {4660},
            genesis : Hashes, total_difficulty : {1000}, sender_addr : Addrs,
            receiver_addr : Addrs, user_agent : Agents]
      [] kind = "Shake" ->
           [version : Versions, capabilities : CapabilitySets,
            genesis : Hashes, total_difficulty : Numbers, user_agent : Agents]
      [] kind \in {"Ping", "Pong"} ->
           [total_difficulty : Numbers, height : Numbers]
      [] kind = "GetPeerAddrs" -> [capabilities : CapabilitySets \cup {4}]
      [] kind = "PeerAddrs" ->
           {[peers |-> s] : s \in SeqsUpTo(Addrs, MaxList)}
      [] kind = "Error" -> [code : {0, 1, 65536}, message : Agents]
      [] kind = "GetHeaders" ->
           {[hashes |-> s] : s \in SeqsUpTo(Hashes, MaxList)}
             \cup {[hashes |-> ManyHashes(MAX_LOCATORS)]}
      [] kind = "Headers" ->
           {[headers |-> s] : s \in SeqsUpTo(HeaderRecords, MaxList)}
      [] kind = "BanReason" -> [ban_reason : ReasonForBan]
      [] kind = "TxHashSetRequest" -> [hash : Hashes, height : Numbers]
      [] kind = "TxHashSetArchive" ->
           [hash : Hashes, height : Numbers, bytes : Numbers \cup {20000}]
      [] kind = "KernelDataRequest" -> {[unit |-> TRUE]}
      [] kind = "KernelDataResponse" -> [bytes : Numbers \cup {20000}]

\* bodies a peer sends that no writer here produces: counts beyond the
\* maximum with and without elements after them, a count of zero with bytes
\* after it, lists cut short (one of the maximum count among them), and ban
\* codes cut short or of no reason
PeerBodies(kind) ==
    CASE kind = "PeerAddrs" ->
           {write_u32(MAX_PEER_ADDRS + 1), write_u32(HugeLen),
            write_u32(MAX_PEER_ADDRS + 1) \o PeerAddr_write(V4(<<127, 0, 0, 1>>, 3414)),
            write_u32(0) \o <<9, 9>>,
            write_u32(2) \o PeerAddr_write(V4(<<127, 0, 0, 1>>, 3414)),
            write_u32(MAX_PEER_ADDRS) \o PeerAddr_write(V4(<<127, 0, 0, 1>>, 3414)),
            <<0, 0>>}
      [] kind = "GetHeaders" ->
           {write_u8(MAX_LOCATORS + 1), write_u8(255),
            write_u8(MAX_LOCATORS + 1) \o Hash_write(GenesisHash),
            write_u8(0) \o <<9, 9>>,
            write_u8(2) \o Hash_write(GenesisHash),
            <<>>}
      [] kind = "BanReason" ->
           {<<>>, <<0, 0>>, <<0, 0, 0>>, write_i32(8), write_i32(-1),
            write_i32(HugeLen), write_i32(7) \o <<1>>, <<128, 0, 0, 0>>}
      [] OTHER -> {}

NoVal == [none |-> TRUE]
NoRd == [ok |-> FALSE, err |-> "None"]

\* every value of a byte
Bytes == 0..255

\* Msg::new serializes a payload: ser::ser_vec(&msg, version)
Encode ==
    /\ cpc = "idle"
    /\ \E kind \in PayloadKinds :
         \E x \in Values(kind) :
           /\ ckind' = kind
           /\ cval' = x
           /\ cbytes' = Payload_write(kind, x)
    /\ cpc' = "encoded"
    /\ cres' = cres
    /\ UNCHANGED <<rvars, wvars, pvars>>

\* read_body has read a body of the expected type that a peer made up
PeerBody ==
    /\ cpc = "idle"
    /\ \E kind \in PayloadKinds :
         \E bs \in PeerBodies(kind) :
           /\ ckind' = kind
           /\ cbytes' = bs
    /\ cval' = NoVal
    /\ cpc' = "encoded"
    /\ cres' = cres
    /\ UNCHANGED <<rvars, wvars, pvars>>

\* read_body decodes the body: T::read(&mut reader)
Decode ==
    /\ cpc = "encoded"
    /\ ckind \in PayloadKinds
    /\ cres' = Payload_read(ckind, cbytes)
    /\ cpc' = "decoded"
    /\ UNCHANGED <<ckind, cval, cbytes>>
    /\ UNCHANGED <<rvars, wvars, pvars>>

\* write_message serializes the header of a message: msg.header.write
EncodeHeader ==
    /\ cpc = "idle"
    /\ \E msg_type \in Type :
         /\ cval' = MsgHeader_new(msg_type, 0, chain)
         /\ cbytes' = MsgHeader_write(MsgHeader_new(msg_type, 0, chain))
    /\ ckind' = "MsgHeader"
    /\ cpc' = "encoded"
    /\ cres' = cres
    /\ UNCHANGED <<rvars, wvars, pvars>>

\* read_header has read the 11 bytes of a header that a peer made up, with
\* any type byte
PeerHeaderBytes ==
    /\ cpc = "idle"
    /\ \E t \in Bytes : cbytes' = header_bytes(magic(chain), t, 0)
    /\ cval' = NoVal
    /\ ckind' = "MsgHeader"
    /\ cpc' = "encoded"
    /\ cres' = cres
    /\ UNCHANGED <<rvars, wvars, pvars>>

\* read_header decodes the header: MsgHeaderWrapper::read(&mut reader)
DecodeHeader ==
    /\ cpc = "encoded"
    /\ ckind = "MsgHeader"
    /\ cres' = MsgHeaderWrapper_read(cbytes, chain)
    /\ cpc' = "decoded"
    /\ UNCHANGED <<ckind, cval, cbytes>>
    /\ UNCHANGED <<rvars, wvars, pvars>>

-----------------------------------------------------------------------------
(* Several producers on one outbound stream *)

\* the producers that send on the stream
Producers == {1, 2}

\* messages sent on the stream by the producers, in all
MaxSends == 2

\* what the producers send: a snapshot archive descriptor, alone or with
\* its attachment
SendFiles == {NoFile, 20000}

\* a producer builds an envelope, whatever the stream is doing
Submit(p) ==
    /\ pending[p] = <<>>
    /\ Len(msgs) + Cardinality({q \in Producers : pending[q] # <<>>})
         + (IF lock # 0 /\ wpc = "idle" THEN 1 ELSE 0) < MaxSends
    /\ \E body \in WriteBodies, file \in SendFiles :
         pending' =
           [pending EXCEPT ![p] =
              IF file = NoFile
              THEN Msg_new("TxHashSetArchive", body, chain)
              ELSE Msg_add_attachment(
                     Msg_new("TxHashSetArchive", body, chain), file)]
    /\ UNCHANGED <<lock, owners, payloads>>
    /\ UNCHANGED <<rvars, wvars, cvars>>

MayRelease_after_frame == wpc \in {"done", "read"}

\* the sender lets go of the stream when its write_message call has returned
MayRelease == wpc = "done"

\* a producer takes the stream, which no one holds, for one write_message
\* call: the call has the stream as `&mut W` until it returns
Acquire(p) ==
    /\ lock = 0
    /\ pending[p] # <<>>
    /\ lock' = p
    /\ wmsg' = pending[p]
    /\ origin' = "new"
    /\ pending' = [pending EXCEPT ![p] = <<>>]
    /\ owners' = Append(owners, p)
    /\ payloads' = payloads
    /\ UNCHANGED <<wpc, out, msgs, sent_bytes, quiet_bytes, file_rem, wn,
                   nshort, reads, sent0, quiet0, wres>>
    /\ UNCHANGED <<rvars, cvars>>

\* the call has returned Ok(()): the stream is handed back
Release ==
    /\ lock # 0
    /\ MayRelease
    /\ lock' = 0
    /\ wpc' = "idle"
    /\ wmsg' = <<>>
    /\ UNCHANGED <<pending, owners, payloads>>
    /\ UNCHANGED <<out, msgs, sent_bytes, quiet_bytes, file_rem, wn, nshort,
                   wres, reads, sent0, quiet0, origin>>
    /\ UNCHANGED <<rvars, cvars>>

-----------------------------------------------------------------------------
(* One stream from write_message to read_message *)

\* messages written on the stream with write_header_body
MaxPipe == 2

\* the payload types sent with write_header_body, and the payloads
PipeKinds == {"Ping", "GetPeerAddrs", "Error", "KernelDataRequest"}

PipeValues(kind) ==
    CASE kind = "Ping" -> [total_difficulty : {1000}, height : Numbers]
      [] kind = "GetPeerAddrs" -> [capabilities : {4}]
      [] kind = "Error" -> [code : {1}, message : {TestAgent, <<>>}]
      [] kind = "KernelDataRequest" -> Values(kind)

\* write_header_body, up to its call of write_message: Msg::new serializes
\* the payload of the message type
WriteHeaderBody ==
    /\ wpc = "idle"
    /\ wmsg = <<>>
    /\ Len(msgs) < MaxPipe
    /\ \E kind \in PipeKinds :
         \E x \in PipeValues(kind) :
           /\ wmsg' = Msg_new(kind, Payload_write(kind, x), chain)
           /\ payloads' = payloads \cup {<<Len(msgs) + 1, x>>}
    /\ origin' = "new"
    /\ UNCHANGED <<pending, lock, owners>>
    /\ UNCHANGED <<wpc, out, msgs, sent_bytes, quiet_bytes, file_rem, wn,
                   nshort, reads, sent0, quiet0, wres>>
    /\ UNCHANGED <<rvars, cvars>>

\* the bytes of the next completed write_all of the sender reach the
\* receiving end of the stream
Arrive ==
    /\ nsent < Len(out)
    /\ out[nsent + 1].ok
    /\ out[nsent + 1].kind = "frame"
    /\ LET w == out[nsent + 1]
           h == msgs[w.msg].header
       IN  /\ inp' = inp \o w.bytes
           /\ frames' = Append(frames,
                 Frame(h.magic, h.msg_type, Type_as_u8(h.msg_type), h.msg_len,
                       Len(msgs[w.msg].body), w.n))
    /\ nsent' = nsent + 1
    /\ UNCHANGED <<chain, peer, off, peer_closed, rpc, rop, rexp, rhdr,
                   rres, rbuf, rbody, rsrc, skipped, rafter>>
    /\ UNCHANGED <<wvars, cvars, pvars>>

\* read_body::<T> with the payload type T of the expected message type:
\* what T::read makes of the len bytes read
read_body_result(msg_type, bs) ==
    LET r == Payload_read(msg_type, bs)
    IN  IF r.ok THEN [tag |-> "Ok", body |-> bs, v |-> r.v] ELSE Err(r.err)

ReadMessagePayload_decoder_bytes ==
    LET len == rhdr.header.msg_len
        r == Payload_read(rexp, SubSeq(inp, 1, len))
        used == IF r.ok THEN len - Len(r.rest) ELSE 0
    IN  /\ rpc = "body"
        /\ CanRead(len)
        /\ Consume(IF ReadOk(len) THEN used ELSE len)
        /\ rbody' = Taken(len)
        /\ rpc' = "idle"
        /\ IF ReadOk(len)
           THEN rres' = read_body_result(rexp, SubSeq(inp, 1, len))
           ELSE rres' = Err("Connection")
        /\ UNCHANGED <<chain, peer, peer_closed, nsent, rop, rexp, rhdr,
                       rbuf, rsrc, skipped, rafter>>
        /\ UNCHANGED <<wvars, cvars, pvars>>

\* read_message::<T>, its body stage (read_body), T the payload type of the
\* expected message type
ReadMessagePayload ==
    LET len == rhdr.header.msg_len
    IN  /\ rpc = "body"
        /\ CanRead(len)
        /\ Consume(len)
        /\ rbody' = Taken(len)
        /\ rpc' = "idle"
        /\ IF ReadOk(len)
           THEN rres' = read_body_result(rexp, SubSeq(inp, 1, len))
           ELSE rres' = Err("Connection")
        /\ UNCHANGED <<chain, peer, peer_closed, nsent, rop, rexp, rhdr,
                       rbuf, rsrc, skipped, rafter>>
        /\ UNCHANGED <<wvars, cvars, pvars>>

-----------------------------------------------------------------------------
(* Specifications *)

InitReader ==
    /\ inp = <<>>
    /\ frames = <<>>
    /\ off = 0
    /\ peer_closed = FALSE
    /\ nsent = 0
    /\ rpc = "idle"
    /\ rop = "none"
    /\ rexp = "None"
    /\ rhdr = NoRes
    /\ rres = NoRes
    /\ rbuf = 0
    /\ rbody = 0
    /\ rsrc = NoFrame
    /\ skipped = NoFrame
    /\ rafter = NoFrame

InitWriter ==
    /\ wpc = "idle"
    /\ wmsg = <<>>
    /\ out = <<>>
    /\ msgs = <<>>
    /\ sent_bytes \in TrackerStarts
    /\ quiet_bytes \in TrackerStarts
    /\ sent0 = sent_bytes
    /\ quiet0 = quiet_bytes
    /\ file_rem = 0
    /\ wn = 0
    /\ nshort = 0
    /\ reads = <<>>
    /\ wres = NoRes
    /\ origin = "none"

InitProducers ==
    /\ pending = [p \in Producers |-> <<>>]
    /\ lock = 0
    /\ owners = <<>>
    /\ payloads = {}

InitCodec ==
    /\ cpc = "idle"
    /\ ckind = "None"
    /\ cval = NoVal
    /\ cbytes = <<>>
    /\ cres = NoRd

InitRead ==
    /\ chain \in ChainTypes
    /\ peer \in Peers
    /\ InitReader
    /\ InitWriter
    /\ InitCodec
    /\ InitProducers
    /\ sent_bytes = 0
    /\ quiet_bytes = 0

NextRead ==
    \/ PeerSendKnown
    \/ PeerSendUnknown
    \/ PeerClose
    \/ ReadHeader
    \/ ReadMessageHeader
    \/ ReadMessageBody
    \/ Discard
    \/ Handled

SpecRead == InitRead /\ [][NextRead]_vars

InitWrite ==
    /\ chain \in ChainTypes
    /\ peer = chain
    /\ InitReader
    /\ InitWriter
    /\ InitCodec
    /\ InitProducers

NextWrite ==
    \/ BuildNew
    \/ BuildFromParts
    \/ AddAttachment
    \/ WriteFrame
    \/ IncSent
    \/ TryClone
    \/ AttachmentRead
    \/ AttachmentWrite
    \/ IncQuietSent
    \/ Sent

SpecWrite == InitWrite /\ [][NextWrite]_vars

\* the steps of a write_message call under way: each is an I/O call or a
\* counter update that the task running the call gets to complete
WriteSteps ==
    \/ IncSent
    \/ TryClone
    \/ AttachmentRead
    \/ AttachmentWrite
    \/ IncQuietSent

\* one node, its counters at zero
InitWriteLive ==
    /\ InitWrite
    /\ chain = "Mainnet"
    /\ sent_bytes = 0
    /\ quiet_bytes = 0

SpecWriteLive == InitWriteLive /\ [][NextWrite]_vars /\ WF_vars(WriteSteps)

InitPayload ==
    /\ chain \in ChainTypes
    /\ peer = chain
    /\ InitReader
    /\ InitWriter
    /\ sent_bytes = 0
    /\ quiet_bytes = 0
    /\ InitCodec
    /\ InitProducers

NextCodec ==
    \/ Encode
    \/ PeerBody
    \/ Decode
    \/ EncodeHeader
    \/ PeerHeaderBytes
    \/ DecodeHeader

SpecCodec == InitPayload /\ [][NextCodec]_vars

\* one connection, used in one direction: the node reads the peer's frames
\* from it, or sends its own messages on it
WriterUnused == wmsg = <<>> /\ msgs = <<>>
ReaderUnused == nsent = 0 /\ ~peer_closed

InitIO == InitRead

NextIO ==
    \/ WriterUnused /\ PeerSendKnown
    \/ WriterUnused /\ PeerSendUnknown
    \/ WriterUnused /\ PeerClose
    \/ WriterUnused /\ ReadHeader
    \/ WriterUnused /\ ReadMessageHeader
    \/ WriterUnused /\ ReadMessageBody
    \/ WriterUnused /\ Discard
    \/ WriterUnused /\ Handled
    \/ ReaderUnused /\ BuildNew
    \/ ReaderUnused /\ BuildFromParts
    \/ ReaderUnused /\ AddAttachment
    \/ ReaderUnused /\ WriteFrame
    \/ ReaderUnused /\ IncSent
    \/ ReaderUnused /\ TryClone
    \/ ReaderUnused /\ AttachmentRead
    \/ ReaderUnused /\ AttachmentWrite
    \/ ReaderUnused /\ IncQuietSent
    \/ ReaderUnused /\ Sent

SpecIO == InitIO /\ [][NextIO]_vars

\* one node with its counters at zero, and its producers
InitShare ==
    /\ InitWrite
    /\ chain = "Mainnet"
    /\ sent_bytes = 0
    /\ quiet_bytes = 0

NextShare ==
    \/ \E p \in Producers : Submit(p)
    \/ \E p \in Producers : Acquire(p)
    \/ lock # 0 /\ WriteFrame
    \/ lock # 0 /\ IncSent
    \/ lock # 0 /\ TryClone
    \/ lock # 0 /\ AttachmentRead
    \/ lock # 0 /\ AttachmentWrite
    \/ lock # 0 /\ IncQuietSent
    \/ Release

SpecShare == InitShare /\ [][NextShare]_vars

\* two nodes of one network, one stream from the first to the second
InitPipe ==
    /\ InitRead
    /\ chain = "Mainnet"
    /\ peer = chain

NextPipe ==
    \/ WriteHeaderBody
    \/ BuildNew
    \/ BuildFromParts
    \/ WriteFrame
    \/ IncSent
    \/ Sent
    \/ Arrive
    \/ ReadHeader
    \/ ReadMessageHeader
    \/ ReadMessagePayload
    \/ rop = "read_message" /\ Handled

SpecPipe == InitPipe /\ [][NextPipe]_vars

Init == InitRead

Next == NextRead \/ NextWrite \/ NextCodec

Spec == Init /\ [][Next]_vars

-----------------------------------------------------------------------------
(* Properties of the header stage (SpecRead) *)

\* the header stage of the operation read a frame from its first byte, and
\* the frame carries this node's magic
ReadOwnFrame == rsrc # NoFrame /\ rsrc.m = magic(chain)

KnownByte(t) == t \in 0..22
KnownLimit(t) == 4 * max_msg_size(TypeTable[t + 1], chain)
DefaultLimit == 4 * default_max_msg_size(chain)

\* C1: a header with the right magic and a known type byte T decodes as
\* Known(T, L) when its declared length L is at most 4 * max_msg_size(T) and
\* fails with TooLargeReadErr when L is larger; 4 * max is accepted and
\* 4 * max + 1 is rejected (512 and 513 for Hand).
C1_KnownSizeLimit ==
    (rop = "read_header" /\ ReadOwnFrame /\ KnownByte(rsrc.t)) =>
        /\ rsrc.len > KnownLimit(rsrc.t) => rhdr = Err("TooLargeReadErr")
        /\ rsrc.len <= KnownLimit(rsrc.t) =>
             rhdr = Known([magic |-> magic(chain),
                           msg_type |-> TypeTable[rsrc.t + 1],
                           msg_len |-> rsrc.len])
        /\ (rsrc.t = 1 /\ rsrc.len = 512) => rhdr.tag = "Known"
        /\ (rsrc.t = 1 /\ rsrc.len = 513) => rhdr = Err("TooLargeReadErr")

C1_Witness ==
    /\ rop = "read_header" /\ ReadOwnFrame
    /\ rsrc.t = 9
    /\ rsrc.len = KnownLimit(9) + 1
    /\ rhdr = Err("TooLargeReadErr")

\* C2: a header with the right magic and a type byte t of no known type
\* decodes, without error, as Unknown(L, t) with the length and type byte
\* that were encoded when L is at most 4 * default_max_msg_size(), and
\* fails with TooLargeReadErr when L is larger.
C2_UnknownTolerated ==
    (rop = "read_header" /\ ReadOwnFrame /\ ~KnownByte(rsrc.t)) =>
        IF rsrc.len <= DefaultLimit
        THEN rhdr = [tag |-> "Unknown", msg_len |-> rsrc.len, t |-> rsrc.t]
        ELSE rhdr = Err("TooLargeReadErr")

C2_Witness ==
    /\ rop = "read_header" /\ ReadOwnFrame
    /\ rsrc.t = 255
    /\ rsrc.len = DefaultLimit
    /\ rhdr.tag = "Unknown"

\* C3: read_message sizes the body buffer and takes body bytes from the
\* stream only after the header decoded as Known, with the expected type
\* and a declared length of at most 4 * max_msg_size(type): the buffer never
\* exceeds that, and when the header stage fails no body byte is read.
C3_SizeCheckedBeforeBody ==
    /\ (rpc = "body" \/ rbody > 0 \/ rbuf > LEN) =>
         /\ rop = "read_message"
         /\ rhdr.tag = "Known"
         /\ rhdr.header.msg_type = rexp
         /\ rhdr.header.msg_len <= 4 * max_msg_size(rexp, chain)
         /\ rbuf = rhdr.header.msg_len
         /\ rbody <= rbuf
    /\ (rop = "read_message" /\ rhdr.tag = "Err") =>
         rbody = 0 /\ rbuf = LEN /\ rpc = "idle" /\ rres = rhdr

C3_Witness ==
    /\ rpc = "body"
    /\ rexp = "Headers"
    /\ rbuf = 4 * (2 + 365 * 512)
    /\ rbody = 0

\* C4: a header whose magic differs from this node's magic fails decode,
\* whatever its type byte and length; a node of a network writes that
\* network's magic, so its headers never decode at a node of another one.
C4_MagicChecked ==
    /\ (rsrc # NoFrame /\ rsrc.m # magic(chain)) =>
         rhdr = Err("UnexpectedData") /\ rres = rhdr
    /\ (peer \in ChainTypes /\ peer # chain /\ rsrc # NoFrame) =>
         rhdr = Err("UnexpectedData")
    /\ (peer \in ChainTypes /\ off = 0 /\ frames # <<>>) =>
         <<inp[1], inp[2]>> =
            (CASE peer = "Mainnet" -> <<97, 61>>
               [] peer = "Floonet" -> <<83, 59>>
               [] peer = "Other" -> <<73, 43>>)

C4_Witness ==
    /\ peer = "Floonet" /\ chain = "Other"
    /\ rsrc # NoFrame
    /\ rsrc.t = 3 /\ rsrc.len = 0
    /\ rhdr = Err("UnexpectedData")

\* C8: read_expected_header yields a header only when it is Known and of
\* the expected type; a Known header of another type and an Unknown one
\* fail with BadMessage, which read_message returns without reading a body.
C8_ExpectedTypeOnly ==
    (rop = "read_message") =>
        /\ rhdr.tag \in {"Known", "Err"}
        /\ rhdr.tag = "Known" => rhdr.header.msg_type = rexp
        /\ (/\ ReadOwnFrame
            /\ \/ KnownByte(rsrc.t) /\ rsrc.len <= KnownLimit(rsrc.t)
                                    /\ TypeTable[rsrc.t + 1] # rexp
               \/ ~KnownByte(rsrc.t) /\ rsrc.len <= DefaultLimit) =>
             /\ rhdr = Err("BadMessage")
             /\ rres = Err("BadMessage")
             /\ rpc = "idle"
             /\ rbody = 0
             /\ Len(inp) = rsrc.nb

C8_Witness ==
    /\ rop = "read_message" /\ ReadOwnFrame
    /\ rexp = "Ping"
    /\ rsrc.t = 4 /\ rsrc.len = 10 /\ rsrc.nb = 10
    /\ rres = Err("BadMessage")

\* what the header codec is to make of a frame carrying this node's magic
Decoded(f) ==
    IF KnownByte(f.t)
    THEN IF f.len <= KnownLimit(f.t)
         THEN [tag |-> "Known",
               header |-> [magic |-> magic(chain),
                           msg_type |-> TypeTable[f.t + 1], msg_len |-> f.len]]
         ELSE Err("TooLargeReadErr")
    ELSE IF f.len <= DefaultLimit
         THEN [tag |-> "Unknown", msg_len |-> f.len, t |-> f.t]
         ELSE Err("TooLargeReadErr")

\* C9: read_header on a frame of unknown type t and length L within the
\* default bound takes exactly 11 bytes and returns Unknown(L, t); once the
\* caller has discarded exactly L bytes the stream is at the first byte of
\* the next frame, and the next read_header decodes that frame's header
\* (or meets the end of the stream when the peer sent no further frame).
C9_SkipKeepsFraming ==
    /\ (/\ rop = "read_header" /\ ReadOwnFrame
        /\ ~KnownByte(rsrc.t) /\ rsrc.len <= DefaultLimit) =>
         /\ rres = [tag |-> "Unknown", msg_len |-> rsrc.len, t |-> rsrc.t]
         /\ Len(inp) = rsrc.nb
         /\ rsrc.size = 11 + rsrc.nb
    /\ skipped # NoFrame =>
         /\ off = 0
         /\ Len(inp) = IF frames = <<>> THEN 0 ELSE Head(frames).size
    /\ (rafter # NoFrame /\ rop = "read_header") =>
         IF rres = Err("Connection")
         THEN peer_closed /\ rsrc = NoFrame /\ inp = <<>>
         ELSE /\ ReadOwnFrame
              /\ rres = Decoded(rsrc)
              /\ Len(inp) = rsrc.nb

C9_Witness ==
    /\ rafter # NoFrame
    /\ rafter.t = 200 /\ rafter.len = 10
    /\ rop = "read_header"
    /\ rsrc.t = 3 /\ rsrc.len = 10
    /\ rres.tag = "Known"

\* C10: the header MsgHeader::new(T, L) writes is exactly 11 bytes, two of
\* magic, one of type code and eight of length, and for L at most
\* 4 * max_msg_size(T) it decodes on the same network as Known with the
\* same type T and length L.
C10_HeaderRoundTrip ==
    /\ (peer = chain /\ off = 0 /\ frames # <<>>
          /\ Head(frames).msg_type # "None") =>
         LET f == Head(frames)
         IN  /\ Len(inp) = 11 + f.nb
             /\ <<inp[1], inp[2]>> = magic(chain)
             /\ inp[3] = TypeCode(f.msg_type)
             /\ <<inp[4], inp[5], inp[6], inp[7]>> = <<0, 0, 0, 0>>
             /\ inp[8] = f.len \div 16777216
             /\ inp[9] = (f.len \div 65536) % 256
             /\ inp[10] = (f.len \div 256) % 256
             /\ inp[11] = f.len % 256
    /\ (/\ peer = chain /\ rop = "read_header" /\ rsrc # NoFrame
        /\ rsrc.msg_type # "None"
        /\ rsrc.len <= 4 * max_msg_size(rsrc.msg_type, chain)) =>
         /\ rres.tag = "Known"
         /\ rres.header.msg_type = rsrc.msg_type
         /\ rres.header.msg_len = rsrc.len

C10_Witness ==
    /\ peer = chain /\ rop = "read_header" /\ rsrc # NoFrame
    /\ rsrc.msg_type = "PeerAddrs"
    /\ rsrc.len = 4 * (4 + 19 * 256)
    /\ rres.tag = "Known"
    /\ rres.header.msg_type = "PeerAddrs"
    /\ rres.header.msg_len = 19472

-----------------------------------------------------------------------------
(* Properties of write_message (SpecWrite) *)

\* the message write_message was last called with, and its number
CurNo == Len(msgs)
Cur == msgs[Len(msgs)]

\* positions in out of the writes made for message k
WritesOf(k) == {i \in 1..Len(out) : out[i].msg = k}
FramesOf(k) == {i \in WritesOf(k) : out[i].kind = "frame"}
ChunksOf(k) == {i \in WritesOf(k) : out[i].kind = "attachment"}

\* sizes of the attachment writes made for message k, in the order made
RECURSIVE ChunkSizesFrom(_, _)
ChunkSizesFrom(k, i) ==
    IF i > Len(out) THEN <<>>
    ELSE IF out[i].msg = k /\ out[i].kind = "attachment"
         THEN <<out[i].n>> \o ChunkSizesFrom(k, i + 1)
         ELSE ChunkSizesFrom(k, i + 1)

ChunkSizes(k) == ChunkSizesFrom(k, 1)

RECURSIVE Sum(_)
Sum(seq) == IF seq = <<>> THEN 0 ELSE Head(seq) + Sum(Tail(seq))

\* sizes of the attachment writes for message k that completed
RECURSIVE DoneSizesFrom(_, _)
DoneSizesFrom(k, i) ==
    IF i > Len(out) THEN <<>>
    ELSE IF out[i].msg = k /\ out[i].kind = "attachment" /\ out[i].ok
         THEN <<out[i].n>> \o DoneSizesFrom(k, i + 1)
         ELSE DoneSizesFrom(k, i + 1)

\* C5: header and body of an envelope go to the stream in one write, the 11
\* header bytes first and the whole body after them, and every attachment
\* write of that envelope comes after that write has completed.
C5_FrameThenAttachment ==
    \A k \in 1..Len(msgs) :
      /\ Cardinality(FramesOf(k)) = 1
      /\ \A i \in FramesOf(k) :
           /\ out[i].n = 11 + Len(msgs[k].body)
           /\ out[i].bytes[1] = msgs[k].header.magic[1]
           /\ out[i].bytes[2] = msgs[k].header.magic[2]
           /\ out[i].bytes[3] = TypeCode(msgs[k].header.msg_type)
           /\ SubSeq(out[i].bytes, 4, 11) =
                <<0, 0, 0, 0, 0, 0, 0, msgs[k].header.msg_len>>
           /\ SubSeq(out[i].bytes, 12, out[i].n) = msgs[k].body
           /\ \A j \in ChunksOf(k) : i < j /\ out[i].ok
           /\ \A j \in WritesOf(k) : i <= j

C5_Witness ==
    /\ wpc = "done"
    /\ Len(out) = 4
    /\ out[1].kind = "frame" /\ out[1].n = 13
    /\ out[2].kind = "attachment"
    /\ out[4].kind = "attachment"

-----------------------------------------------------------------------------
(* Properties of the payload codecs (SpecCodec) *)

\* the u32 at the head of a body, byte by byte
Count32(bs) == bs[1] * 16777216 + bs[2] * 65536 + bs[3] * 256 + bs[4]

\* C11: decoding a peer-address list whose u32 count exceeds MAX_PEER_ADDRS,
\* or a locator whose u8 count exceeds MAX_LOCATORS, fails with
\* TooLargeReadErr whether or not any element follows the count (no element
\* is read first); a count of zero decodes to the empty list and leaves
\* every byte after the count unread.
C11_BoundedLists ==
    cpc = "decoded" =>
      /\ (ckind = "PeerAddrs" /\ Len(cbytes) >= 4
            /\ Count32(cbytes) > MAX_PEER_ADDRS) =>
           cres = [ok |-> FALSE, err |-> "TooLargeReadErr"]
      /\ (ckind = "GetHeaders" /\ Len(cbytes) >= 1
            /\ cbytes[1] > MAX_LOCATORS) =>
           cres = [ok |-> FALSE, err |-> "TooLargeReadErr"]
      /\ (ckind = "PeerAddrs" /\ Len(cbytes) >= 4 /\ Count32(cbytes) = 0) =>
           /\ cres.ok
           /\ cres.v = [peers |-> <<>>]
           /\ cres.rest = SubSeq(cbytes, 5, Len(cbytes))
      /\ (ckind = "GetHeaders" /\ Len(cbytes) >= 1 /\ cbytes[1] = 0) =>
           /\ cres.ok
           /\ cres.v = [hashes |-> <<>>]
           /\ cres.rest = SubSeq(cbytes, 2, Len(cbytes))

C11_Witness ==
    /\ cpc = "decoded"
    /\ ckind = "PeerAddrs"
    /\ cbytes = <<0, 0, 1, 1>>
    /\ cres = [ok |-> FALSE, err |-> "TooLargeReadErr"]

\* C12: every payload read back from the bytes it was serialized to is the
\* payload that was written, with no byte of the body left over; so the
\* handshake offer with nonce 0x1234, a fixed genesis hash, total difficulty
\* 1000, sender 127.0.0.1:3414, receiver 127.0.0.1:3415 and user agent
\* "testnode/1.0" comes back the same in every field.
C12_RoundTrip ==
    (cpc = "decoded" /\ ckind \in PayloadKinds /\ cval # NoVal) =>
      /\ cres.ok
      /\ cres.v = cval
      /\ cres.rest = <<>>
      /\ (ckind = "Hand" /\ cval.nonce = 4660 /\ cval.genesis = GenesisHash
            /\ cval.total_difficulty = 1000
            /\ cval.sender_addr = V4(<<127, 0, 0, 1>>, 3414)
            /\ cval.receiver_addr = V4(<<127, 0, 0, 1>>, 3415)
            /\ cval.user_agent = TestAgent) =>
           /\ cres.v.version = cval.version
           /\ cres.v.capabilities = cval.capabilities
           /\ cres.v.nonce = 4660
           /\ cres.v.genesis = [i \in 1..32 |-> 100 + i]
           /\ cres.v.total_difficulty = 1000
           /\ cres.v.sender_addr = [v |-> 4, ip |-> <<127, 0, 0, 1>>, port |-> 3414]
           /\ cres.v.receiver_addr = [v |-> 4, ip |-> <<127, 0, 0, 1>>, port |-> 3415]
           /\ cres.v.user_agent =
                <<116, 101, 115, 116, 110, 111, 100, 101, 47, 49, 46, 48>>

C12_Witness ==
    /\ cpc = "decoded"
    /\ ckind = "Hand"
    /\ cval.nonce = 4660
    /\ cval.capabilities = 15
    /\ cval.sender_addr = V4(<<127, 0, 0, 1>>, 3414)
    /\ cval.receiver_addr = V4(<<127, 0, 0, 1>>, 3415)
    /\ cval.user_agent = TestAgent
    /\ cval.genesis = GenesisHash
    /\ Len(cbytes) = 90
    /\ cres.ok
    /\ cres.v = cval

\* a serialized handshake offer is at hand
HandWritten == cpc \in {"encoded", "decoded"} /\ ckind = "Hand" /\ cval # NoVal

\* C13 as stated: the offer is on the wire as version, capabilities, nonce,
\* genesis, total difficulty, sender address, receiver address, user agent.
C13_GenesisFourth ==
    HandWritten =>
      cbytes = write_u32(cval.version) \o write_u32(cval.capabilities)
                 \o write_u64(cval.nonce) \o cval.genesis
                 \o write_u64(cval.total_difficulty)
                 \o PeerAddr_write(cval.sender_addr)
                 \o PeerAddr_write(cval.receiver_addr)
                 \o write_bytes(cval.user_agent)

\* C13, amended: the offer is on the wire as version, capabilities, nonce,
\* total difficulty, sender address, receiver address, length-prefixed user
\* agent and, last, the genesis hash; the reader takes the fields in that
\* same order, so that each field comes back as written.
C13_GenesisLast ==
    HandWritten =>
      LET a == Len(PeerAddr_write(cval.sender_addr))
          b == Len(PeerAddr_write(cval.receiver_addr))
          u == Len(cval.user_agent)
      IN  /\ Len(cbytes) = 64 + a + b + u
          /\ SubSeq(cbytes, 1, 4) = <<0, 0, 0, cval.version>>
          /\ SubSeq(cbytes, 5, 8) = <<0, 0, 0, cval.capabilities>>
          /\ SubSeq(cbytes, 9, 16) =
               <<0, 0, 0, 0, 0, 0, cval.nonce \div 256, cval.nonce % 256>>
          /\ SubSeq(cbytes, 17, 24) =
               <<0, 0, 0, 0, 0, 0, cval.total_difficulty \div 256,
                 cval.total_difficulty % 256>>
          /\ SubSeq(cbytes, 25, 24 + a) = PeerAddr_write(cval.sender_addr)
          /\ SubSeq(cbytes, 25 + a, 24 + a + b) = PeerAddr_write(cval.receiver_addr)
          /\ SubSeq(cbytes, 25 + a + b, 32 + a + b) = <<0, 0, 0, 0, 0, 0, 0, u>>
          /\ SubSeq(cbytes, 33 + a + b, 32 + a + b + u) = cval.user_agent
          /\ SubSeq(cbytes, 33 + a + b + u, 64 + a + b + u) = cval.genesis
          /\ cpc = "decoded" => cres.ok /\ cres.v = cval /\ cres.rest = <<>>

C13_Witness ==
    /\ cpc = "decoded"
    /\ ckind = "Hand"
    /\ cval.genesis = GenesisHash
    /\ cval.sender_addr = V6(<<0, 0, 0, 0, 0, 0, 0, 1>>, 13414)
    /\ cval.receiver_addr = V4(<<127, 0, 0, 1>>, 3415)
    /\ cval.user_agent = <<195, 169>>
    /\ SubSeq(cbytes, 61, 92) = GenesisHash
    /\ cres.ok
    /\ cres.v.genesis = GenesisHash

\* a serialized handshake reply is at hand
ShakeWritten == cpc \in {"encoded", "decoded"} /\ ckind = "Shake" /\ cval # NoVal

\* the offer that has the fields of the reply x, with sender s and receiver r
OfferOf(x, s, r) ==
    [version |-> x.version, capabilities |-> x.capabilities, nonce |-> 4660,
     genesis |-> x.genesis, total_difficulty |-> x.total_difficulty,
     sender_addr |-> s, receiver_addr |-> r, user_agent |-> x.user_agent]

\* C14 as stated: the reply is the offer without the nonce and the receiver
\* address and nothing else, so a sender address is on the wire, between
\* the fields that surround it in the offer.
C14_KeepsSender ==
    ShakeWritten =>
      \E s \in Addrs :
        LET hb == Hand_write(OfferOf(cval, s, s))
            a == Len(PeerAddr_write(s))
        IN  cbytes = SubSeq(hb, 1, 8) \o SubSeq(hb, 17, 24 + a)
                       \o SubSeq(hb, 25 + a + a, Len(hb))

\* C14, amended: the reply is the offer without the nonce, the sender
\* address and the receiver address: it carries version, capabilities,
\* total difficulty, user agent and genesis, in the order the offer has
\* them on the wire, and nothing else.
C14_OfferMinusThree ==
    ShakeWritten =>
      /\ DOMAIN cval = {"version", "capabilities", "genesis",
                        "total_difficulty", "user_agent"}
      /\ \A s \in Addrs, r \in Addrs :
           LET hb == Hand_write(OfferOf(cval, s, r))
               a == Len(PeerAddr_write(s))
               b == Len(PeerAddr_write(r))
           IN  cbytes = SubSeq(hb, 1, 8) \o SubSeq(hb, 17, 24)
                          \o SubSeq(hb, 25 + a + b, Len(hb))
      /\ Len(cbytes) = 4 + 4 + 8 + 8 + Len(cval.user_agent) + 32
      /\ cpc = "decoded" => cres.ok /\ cres.v = cval /\ cres.rest = <<>>

C14_Witness ==
    /\ cpc = "decoded"
    /\ ckind = "Shake"
    /\ cval.user_agent = TestAgent
    /\ cval.genesis = GenesisHash
    /\ cval.total_difficulty = 1000
    /\ Len(cbytes) = 68
    /\ cres.ok
    /\ DOMAIN cres.v = {"version", "capabilities", "genesis",
                        "total_difficulty", "user_agent"}

\* the i32 at the head of a body, byte by byte
Signed32(bs) ==
    (IF bs[1] >= 128 THEN bs[1] - 256 ELSE bs[1]) * 16777216
      + bs[2] * 65536 + bs[3] * 256 + bs[4]

\* C15: a ban notice decodes to the ban reason whose code its signed 32-bit
\* reason code is, and fails with CorruptedData when the code is that of no
\* reason; when the code itself cannot be read (the body is empty or cut
\* short) no read error comes out: the code 0 stands in, and the result is
\* the reason of code 0.
C15_BanReasonDecode ==
    (cpc = "decoded" /\ ckind = "BanReason") =>
      IF Len(cbytes) >= 4
      THEN IF Signed32(cbytes) \in 0..7
           THEN /\ cres.ok
                /\ cres.v = [ban_reason |-> ReasonForBanTable[Signed32(cbytes) + 1]]
           ELSE cres = [ok |-> FALSE, err |-> "CorruptedData"]
      ELSE /\ cres.ok
           /\ cres.v = [ban_reason |-> "None"]
           /\ cres.v = BanReason_read(<<0, 0, 0, 0>>).v

C15_Witness ==
    /\ cpc = "decoded"
    /\ ckind = "BanReason"
    /\ cbytes = <<0, 0>>
    /\ cres.ok
    /\ cres.v.ban_reason = "None"

\* C16: the 23 message types map one-to-one onto the codes 0..22 of the code
\* table: the type byte written in a header is the code of its type, a type
\* byte in 0..22 decodes to the type of that code, and a type byte in
\* 23..255 decodes to no known type.
C16_TypeRegistry ==
    /\ Cardinality(Type) = 23
    /\ {Type_as_u8(t) : t \in Type} = 0..22
    /\ \A t \in Type : Type_as_u8(t) = TypeCode(t)
    /\ (cpc \in {"encoded", "decoded"} /\ ckind = "MsgHeader" /\ cval # NoVal) =>
         /\ Len(cbytes) = 11
         /\ cbytes[3] = TypeCode(cval.msg_type)
    /\ (cpc = "decoded" /\ ckind = "MsgHeader") =>
         IF cbytes[3] \in 0..22
         THEN /\ cres.tag = "Known"
              /\ TypeCode(cres.header.msg_type) = cbytes[3]
         ELSE /\ cbytes[3] \in 23..255
              /\ cres = [tag |-> "Unknown", msg_len |-> 0, t |-> cbytes[3]]

C16_Witness ==
    /\ cpc = "decoded"
    /\ ckind = "MsgHeader"
    /\ cval # NoVal
    /\ cval.msg_type = "KernelDataResponse"
    /\ cbytes[3] = 22
    /\ cres.tag = "Known"
    /\ cres.header.msg_type = "KernelDataResponse"

-----------------------------------------------------------------------------
(* Properties of write_message, continued (SpecWrite, SpecWriteLive) *)

\* write_message is in its attachment loop
InLoop == wpc \in {"try_clone", "read", "write", "inc_quiet"}

\* C17: write_message with an attachment of finite size returns: the loop
\* is left, with success, at the first read of the attachment that yields
\* zero bytes (a chunk is written and counted only for a read that yielded
\* bytes), and once it has returned success the call writes nothing more to
\* the stream and raises no counter.
C17_LoopTerminates ==
    /\ [](wpc \in {"write", "inc_quiet"} => wn > 0)
    /\ []((wpc = "done" /\ Cur.attachment # NoFile) =>
            wn = 0 /\ file_rem = 0 /\ wres = [tag |-> "Ok"])
    /\ [][(wpc = "read" /\ wn' = 0) =>
            (wpc' \in {"done", "failed"} /\ out' = out
               /\ sent_bytes' = sent_bytes /\ quiet_bytes' = quiet_bytes)]_vars
    /\ [][wpc = "done" =>
            (out' = out /\ sent_bytes' = sent_bytes
               /\ quiet_bytes' = quiet_bytes)]_vars
    /\ (InLoop ~> (wpc \in {"done", "failed"}))

C17_Witness ==
    /\ wpc = "done"
    /\ Cur.attachment = 20000
    /\ wn = 0
    /\ file_rem = 0
    /\ nshort = 1
    /\ reads = <<4096, 8192, 7712>>
    /\ wres = [tag |-> "Ok"]

\* C18: no failure is retried. In write_message a write that failed is the
\* last write made, and the error is the result; when it was the write of
\* header and body, no counter was raised and nothing of the attachment was
\* read or written; after a failed attachment read or chunk write the quiet
\* counter holds the chunks whose write completed, and nothing is read,
\* written or counted any more. In read_message an error of the header
\* stage is returned with no body byte read, and after an error of either
\* stage nothing more is read from the stream.
C18_NoRetry ==
    /\ [](msgs # <<>> =>
            /\ \A i \in 1..Len(out) :
                 ~out[i].ok => (i = Len(out) /\ wpc = "failed")
            /\ (out[Len(out)].kind = "frame" /\ ~out[Len(out)].ok) =>
                 /\ sent_bytes = sent0
                 /\ quiet_bytes = quiet0
                 /\ reads = <<>>
                 /\ ChunksOf(CurNo) = {}
            /\ wpc = "failed" =>
                 /\ wres.tag = "Err"
                 /\ quiet_bytes - quiet0 = Sum(DoneSizesFrom(CurNo, 1))
                 /\ Len(reads) \in {Cardinality(ChunksOf(CurNo)),
                                    Cardinality(ChunksOf(CurNo)) + 1})
    /\ [][wpc = "failed" =>
            (/\ wpc' = "failed" /\ wres' = wres /\ out' = out
             /\ reads' = reads /\ file_rem' = file_rem
             /\ sent_bytes' = sent_bytes /\ quiet_bytes' = quiet_bytes)]_vars
    /\ []((rop = "read_message" /\ rres.tag = "Err") =>
            /\ rpc = "idle"
            /\ rhdr.tag = "Err" => (rbody = 0 /\ rres = rhdr))
    /\ [][(rop = "read_message" /\ rres.tag = "Err") =>
            (inp' = inp /\ rres' = rres /\ rbody' = rbody /\ rpc' = rpc)]_vars

C18_Witness ==
    /\ wpc = "failed"
    /\ Len(out) = 3
    /\ out[2].ok /\ out[2].n = 8192
    /\ ~out[3].ok
    /\ quiet_bytes - quiet0 = 8192
    /\ sent_bytes - sent0 = 11 + Len(Cur.body)

\* bytes of the attachment of message k
AttachmentLen(k) ==
    IF msgs[k].attachment = NoFile THEN 0 ELSE msgs[k].attachment

\* C20: an envelope built by Msg::new declares in its header the length of its
\* serialized body, with or without an attachment added; write_message puts
\* the 11 header bytes and msg_len body bytes on the wire in its frame, and
\* the attachment goes out in writes of its own, beyond the declared length.
C20_DeclaredLength ==
    origin = "new" =>
      /\ wmsg # <<>> => wmsg.header.msg_len = Len(wmsg.body)
      /\ (wmsg # <<>> /\ wpc # "idle") =>
           /\ Cur = wmsg
           /\ \A i \in FramesOf(CurNo) :
                /\ out[i].n = 11 + Cur.header.msg_len
                /\ out[i].bytes[11] = Len(Cur.body)
                /\ Len(out[i].bytes) = 11 + Cur.header.msg_len
           /\ \A i \in ChunksOf(CurNo) :
                /\ out[i].kind # "frame"
                /\ Cur.attachment # NoFile
           /\ wpc = "done" =>
                Sum(DoneSizesFrom(CurNo, 1)) = AttachmentLen(CurNo)

C20_Witness ==
    /\ origin = "new"
    /\ wpc = "done"
    /\ Cur.header.msg_len = 2
    /\ Cur.attachment = 20000
    /\ \E i \in FramesOf(CurNo) : out[i].n = 13
    /\ Sum(DoneSizesFrom(CurNo, 1)) = 20000

-----------------------------------------------------------------------------
(* Properties of several producers on one stream (SpecShare) *)

\* message k went out whole: its frame, then the whole of its attachment
SentWhole(k) ==
    /\ \A i \in WritesOf(k) : out[i].ok
    /\ Cardinality(FramesOf(k)) = 1
    /\ Sum(ChunkSizes(k)) = AttachmentLen(k)

-----------------------------------------------------------------------------
(* Properties of one stream from write_message to read_message (SpecPipe) *)

\* bytes of the first k writes that reached the receiving end: where frame k
\* ends on the stream
RECURSIVE Boundary(_)
Boundary(k) == IF k = 0 THEN 0 ELSE Boundary(k - 1) + out[k].n

\* bytes the receiver has taken from the stream
Consumed == Boundary(nsent) - Len(inp)

OnBoundary == \E k \in 0..nsent : Boundary(k) = Consumed

\* the frame that ends where the receiver stands
FrameAt == CHOOSE k \in 0..nsent : Boundary(k) = Consumed

\* message k was built by write_header_body from a payload of its type
Typed(k) == \E p \in payloads : p[1] = k
PayloadOf(k) == (CHOOSE p \in payloads : p[1] = k)[2]

\* the header of message k declares the length of its body, as Msg::new
\* makes it, and the length is within the limit the header stage applies
WellFramed(k) ==
    /\ msgs[k].header.msg_len = Len(msgs[k].body)
    /\ msgs[k].header.msg_len
         <= max_msg_size(msgs[k].header.msg_type, chain) * 4

\* every frame the receiver has read from is such a frame
GoodRead ==
    \A k \in 1..nsent : Boundary(k - 1) < Consumed => WellFramed(k)

\* a read_message call has returned
Returned == rop = "read_message" /\ rpc = "idle" /\ rres # NoRes

ZeroLimit == {"Error", "KernelDataRequest"}

\* C22: for Error and KernelDataRequest, whose limit is 0, the header stage
\* accepts a declared length of 0 only and refuses every other with the
\* oversize error; an Error message that write_header_body made of a
\* PeerError, whose body has 12 bytes at least, is refused so by read_header
\* and by read_message, and no byte of its body is read.
C22_ErrorRefused ==
    /\ \A t \in ZeroLimit :
         /\ max_msg_size(t, chain) * 4 = 0
         /\ \A len \in {0, 1, 12, HugeLen} :
              LET h == MsgHeader_new(t, len, chain)
                  w == MsgHeaderWrapper_read(MsgHeader_write(h), chain)
              IN  IF len = 0 THEN w = Known(h)
                  ELSE w = Err("TooLargeReadErr")
    /\ \A k \in 1..Len(msgs) :
         (Typed(k) /\ msgs[k].header.msg_type = "Error") =>
           /\ msgs[k].header.msg_len = Len(msgs[k].body)
           /\ Len(msgs[k].body) >= 12
           /\ msgs[k].body = PeerError_write(PayloadOf(k))
    /\ (rop \in {"read_header", "read_message"} /\ rsrc # NoFrame
          /\ rsrc.msg_type \in ZeroLimit) =>
         IF rsrc.len = 0
         THEN \/ rhdr = Known(MsgHeader_new(rsrc.msg_type, 0, chain))
              \/ /\ rop = "read_message"
                 /\ rexp # rsrc.msg_type
                 /\ rhdr = Err("BadMessage")
         ELSE /\ rhdr = Err("TooLargeReadErr")
              /\ rres = rhdr
              /\ rpc = "idle"
              /\ rbody = 0
              /\ Len(inp) >= rsrc.len

C22_Witness ==
    /\ Returned
    /\ rexp = "Error"
    /\ rsrc.msg_type = "Error"
    /\ rsrc.len = 24
    /\ Typed(1)
    /\ PayloadOf(1) = [code |-> 1, message |-> TestAgent]
    /\ rres = Err("TooLargeReadErr")
    /\ Len(inp) = 24

====
